---- MODULE Spec2Model ----
(***************************************************************************)
(* A model of VPLCodeGenerator's documentation model (analyser.py) and of  *)
(* its live-object member resolvers (source_code_parser.py).               *)
(*                                                                         *)
(* Python dictionaries are modelled as sequences of [k, v] records, so     *)
(* that insertion order is part of the value.  A dotted qualified name is  *)
(* a sequence of its segments: "A.x" is <<"A", "x">> and "" is <<>>.       *)
(***************************************************************************)
EXTENDS Integers, Sequences, FiniteSets, TLC

VARIABLES
    cworld,     \* the classes of the documented program (class sub-system)
    cparser,    \* the SourceCodeClassParser under inspection
    cdoc,       \* the Class doc built over cparser, with its cached properties
    cret,       \* the mapping returned by the last member_objects() call
    cerr,       \* the exception the last operation raised ("" when none)
    mworld,     \* the documented module (module sub-system)
    mparser,    \* the SourceCodeModuleParser over it
    mop,        \* the resolver method called last
    mret,       \* the raw mapping member_objects() produced in that call
    mdocs,      \* what members() returned
    msubs,      \* what submodules() returned
    merr,       \* the exception that call raised ("" when none)
    mwarn,      \* the names that call warned about
    eleft,      \* the left operand of a Doc comparison (equality sub-system)
    eright,     \* its right operand
    eresult,    \* what left == right evaluated to
    gworld,     \* the classes behind the queried namespace (lookup sub-system)
    gdoc,       \* the namespace whose get() is called
    gquery,     \* the identifier of the last call, as its segments
    gresult,    \* what that call returned or raised
    gcache,     \* the memo of get(): identifier -> returned Doc
    scanner,    \* a VariableParser: its source, flag, tables and memoised answers
    slog,       \* the calls made on it so far, oldest first
    sret,       \* what the last of them returned
    rsuits,     \* the parser-suite registry: suite name -> implementation
    rcall,      \* the last call on the registry or on a suite
    rout,       \* what it returned or raised
    ddoc,       \* the reST resolver's input: the doctree of its page and the suite's toctree
    dcache,     \* suite.import_pkg_cache
    dcall,      \* the last call on the reST resolver
    dout,       \* what it returned or raised, and what it printed
    tsuits,     \* the ReSTParserSuit objects: where each is in its life, and its attributes
    tdirs,      \* the directories that exist
    pcall,      \* the last call of _taken_from on the class resolver
    pout,       \* what it returned or raised
    fdoc,       \* a Function doc whose signature is read
    fsig,       \* its cached_property slot `signature'
    fwithout,   \* its cached_property slot `signature_without_self'
    fparams,    \* its cached_property slot `parameters'
    vdoc,       \* a Variable doc, with the fields that may be assigned
    vcache,     \* its cached_property slots
    vcall,      \* the last read or assignment on it
    vret,       \* what the last read returned
    nworld,     \* the documented program of the Namespace views
    ndoc,       \* a Namespace doc, with or without a resolver
    ncall,      \* the last view read on it, or the identifier get was called with
    nout        \* what the read returned or raised

cvars == <<cworld, cparser, cdoc, cret, cerr>>

mvars == <<mworld, mparser, mop, mret, mdocs, msubs, merr, mwarn>>

evars == <<eleft, eright, eresult>>

gvars == <<gworld, gdoc, gquery, gresult, gcache>>

svars == <<scanner, slog, sret>>

rvars == <<rsuits, rcall, rout>>

dvars == <<ddoc, dcache, dcall, dout>>

tvars == <<tsuits, tdirs>>

pvars == <<pcall, pout>>

fvars == <<fdoc, fsig, fwithout, fparams>>

vvars == <<vdoc, vcache, vcall, vret>>

nvars == <<nworld, ndoc, ncall, nout>>

\* the sub-systems beside the four above
xvars == <<svars, rvars, dvars, tvars, pvars, fvars, vvars, nvars>>

\* the same, but the scanner
sxvars == <<rvars, dvars, tvars, pvars, fvars, vvars, nvars>>

\* the same, but the registry
rxvars == <<svars, dvars, tvars, pvars, fvars, vvars, nvars>>

\* the same, but the reST resolver
dxvars == <<svars, rvars, tvars, pvars, fvars, vvars, nvars>>

\* the same, but the life of the reST suites
txvars == <<svars, rvars, dvars, pvars, fvars, vvars, nvars>>

\* the same, but the signature of a Function
fxvars == <<svars, rvars, dvars, tvars, pvars, vvars, nvars>>

\* the same, but the derived properties of a Variable
vxvars == <<svars, rvars, dvars, tvars, pvars, fvars, nvars>>

\* the same, but the views of a Namespace
nxvars == <<svars, rvars, dvars, tvars, pvars, fvars, vvars>>

\* the same, but the provenance calls
pxvars == <<svars, rvars, dvars, tvars, fvars, vvars, nvars>>

vars == <<cvars, mvars, evars, gvars, xvars>>

----------------------------------------------------------------------------
(* Bounds of the model *)

\* number of ordinary member names the documented classes may declare
NNames == 2

\* number of declarations (a name bound in a class body) in the documented program
MaxDecls == 2

\* the longest __all__ list of a module
MaxAll == 2

\* the most segments of an identifier handed to Namespace.get
MaxDepth == 2

NamePool == <<"f", "v", "g", "w", "h", "u">>

Names == {NamePool[i] : i \in 1..NNames}

NameIndex(n) == CHOOSE i \in 1..Len(NamePool) : NamePool[i] = n

\* odd names are methods (live in a class __dict__ only); even names are
\* variables (known to the scanner, and to a __dict__ when assigned in the
\* class body)
IsVarName(n) == NameIndex(n) % 2 = 0

NamesInOrder == [i \in 1..NNames |-> NamePool[i]]

----------------------------------------------------------------------------
(* Ordered dictionaries *)

NoKeys == <<>>

Keys(d) == {d[i].k : i \in 1..Len(d)}

KeySeq(d) == [i \in 1..Len(d) |-> d[i].k]

Has(d, k) == \E i \in 1..Len(d) : d[i].k = k

Get(d, k) == d[CHOOSE i \in 1..Len(d) : d[i].k = k].v

SetDefault(d, k, v) == IF Has(d, k) THEN d ELSE Append(d, [k |-> k, v |-> v])

SetItem(d, k, v) ==
    IF Has(d, k)
    THEN [i \in 1..Len(d) |-> IF d[i].k = k THEN [k |-> k, v |-> v] ELSE d[i]]
    ELSE Append(d, [k |-> k, v |-> v])

DelItem(d, k) == SelectSeq(d, LAMBDA e : e.k # k)

\* d.setdefault(k, v) for every item of e, in e's order
RECURSIVE SetDefaultAll(_, _)
SetDefaultAll(d, e) ==
    IF e = <<>> THEN d
    ELSE SetDefaultAll(SetDefault(d, Head(e).k, Head(e).v), Tail(e))

\* the elements of a sequence, as a set
Range(s) == {s[i] : i \in 1..Len(s)}

\* the sequences that enumerate the finite set S once each: the orders in
\* which Python may iterate over a set
Orders(S) ==
    {s \in [1..Cardinality(S) -> S] : \A i, j \in 1..Cardinality(S) : s[i] = s[j] => i = j}

----------------------------------------------------------------------------
(* The documented classes *)

\* A diamond: class C(B1, B2), class B1(A), class B2(A), class A
Classes == {"A", "B1", "B2", "C"}

\* the classes written in the body of another: a class f in the body of A,
\* and a class f in the body of that one
NestedClasses == {"A.f", "A.f.f"}

\* the class that the body of class c defines under the name f
NestedIn(c) == IF c = "A" THEN "A.f" ELSE "A.f.f"

\* cls.__mro__ without the universal base `object`
Mro(c) ==
    CASE c = "A"  -> <<"A">>
      [] c = "B1" -> <<"B1", "A">>
      [] c = "B2" -> <<"B2", "A">>
      [] c = "C"  -> <<"C", "B1", "B2", "A">>
      [] c \in NestedClasses -> <<c>>

\* cls.__module__
ModuleOf(c) == IF c \in {"A"} \cup NestedClasses THEN "lib" ELSE "pkg"

\* cls.__qualname__
QualnameOf(c) ==
    CASE c = "A.f"   -> <<"A", "f">>
      [] c = "A.f.f" -> <<"A", "f", "f">>
      [] OTHER       -> <<c>>

\* a raw Python value: what it is, and the class body and name it was written under
Val(kind, c, n) == [kind |-> kind, cls |-> c, nm |-> n]

\* inspect_util.empty, the `no concrete value' sentinel
empty == Val("empty", "", "")

\* Python's None
None == Val("none", "", "")

IdentityAttrs == <<"__init__", "__doc__", "__annotations__", "__dict__", "__module__">>

\* names with an annotation in the class body itself (not in a method): they
\* are in cls.__annotations__
ClassLevelAnnotated(w, c) == {n \in Names : IsVarName(n) /\ c \in w.dictIn[n] /\ c \in w.scanIn[n]}

\* the keys of cls.__dict__, in definition order
ClassDict(w, c) ==
    <<"__module__">>
    \o (IF ClassLevelAnnotated(w, c) # {} THEN <<"__annotations__">> ELSE <<>>)
    \o SelectSeq(NamesInOrder, LAMBDA n : c \in w.dictIn[n])
    \o (IF c \in w.initIn THEN <<"__init__">> ELSE <<>>)
    \o (IF Mro(c) = <<c>> THEN <<"__dict__", "__weakref__">> ELSE <<>>)
    \o <<"__doc__">>

\* the class object of class c
ClassObject(c) == Val("class", c, c)

\* cls.__dict__[n]; the world says what kind of value the classes bind their
\* method names to (a function, a property, a class, a module, ...)
DictValue(w, c, n) ==
    CASE n \in {"__dict__", "__weakref__"} -> Val("datadesc", c, n)
      [] n = "__init__"                    -> Val("function", c, n)
      [] n \in {"__module__", "__doc__", "__annotations__"} -> Val("plain", c, n)
      [] OTHER -> IF IsVarName(n) THEN Val("plain", c, n)
                  ELSE IF w.fkind = "class" THEN ClassObject(w.fref)
                  ELSE IF w.fkind = "nested" THEN ClassObject(NestedIn(c))
                  ELSE Val(w.fkind, c, n)

\* the class that getattr(cls, '__init__') finds the constructor in
RECURSIVE InitOwner(_, _)
InitOwner(w, mro) ==
    IF mro = <<>> THEN "object"
    ELSE IF Head(mro) \in w.initIn THEN Head(mro)
    ELSE InitOwner(w, Tail(mro))

\* getattr(cls, attr) for the identity attributes
GetAttr(w, c, attr) ==
    CASE attr = "__init__" ->
            IF InitOwner(w, Mro(c)) = "object" THEN Val("wrapper", "object", "__init__")
            ELSE Val("function", InitOwner(w, Mro(c)), "__init__")
      [] attr = "__doc__" -> Val("rawdoc", c, attr)
      [] OTHER -> Val("plain", c, attr)

\* inspect.cleandoc on a class docstring
cleandoc(v) == IF v.kind = "rawdoc" THEN [v EXCEPT !.kind = "plain"] ELSE v

\* __doc__ of a callable
NoDoc == "none"
ObjectDoc == "object"
CustomDoc == "custom"

DocOf(w, v) ==
    CASE v.kind = "wrapper" -> ObjectDoc
      [] v.nm = "__init__"  -> w.initDoc
      [] v.nm = "__call__"  -> IF w.metaCall = "user_doc" THEN CustomDoc
                               ELSE IF w.metaCall = "user_nodoc" THEN NoDoc ELSE ObjectDoc
      [] v.nm = "__new__"   -> IF w.newFn = "user_doc" THEN CustomDoc
                               ELSE IF w.newFn = "user_nodoc" THEN NoDoc ELSE ObjectDoc
      [] OTHER -> NoDoc

----------------------------------------------------------------------------
(* The scanner's tables for one class body (VariableParser over getsource) *)

\* docstring_in_ns(cls.__name__): name -> the docstring written in cls's body
ScanDoc(w, c) ==
    LET ns == SelectSeq(NamesInOrder, LAMBDA n : c \in w.scanIn[n])
    IN  [i \in 1..Len(ns) |-> [k |-> ns[i], v |-> <<"scan", c, ns[i]>>]]

\* annotations_in_ns(cls.__name__): name -> the annotation text written in cls's body
ScanAnn(w, c) ==
    LET ns == SelectSeq(NamesInOrder, LAMBDA n : c \in w.scanIn[n])
    IN  [i \in 1..Len(ns) |-> [k |-> ns[i], v |-> [src |-> c, form |-> "text"]]]

----------------------------------------------------------------------------
(* Name -> location maps (the resolver's `_definitions' table) *)

NoDefinitions == [n \in {} |-> <<"", <<>>>>]

\* d.setdefault(n, loc(n)) for every n of S
MapSetDefaultAll(d, S, loc(_)) ==
    [n \in (DOMAIN d) \cup S |-> IF n \in DOMAIN d THEN d[n] ELSE loc(n)]

\* d[n] = v
MapSet(d, n, v) == [m \in (DOMAIN d) \cup {n} |-> IF m = n THEN v ELSE d[m]]

\* (cls.__module__, f"{cls.__qualname__}.{name}")
Location(c, n) == <<ModuleOf(c), Append(QualnameOf(c), n)>>

----------------------------------------------------------------------------
(* SourceCodeClassParser.__init__ and the inheritance-chain merge *)

RECURSIVE SourceCodeClassParser(_, _)
RECURSIVE FoldBases(_, _, _)

\* the loop over obj.__mro__[1:]: every ancestor gets a resolver of its own,
\* whose tables (already merged with those of its own ancestors) are folded in
FoldBases(w, p, bases) ==
    IF bases = <<>> THEN p
    ELSE LET cls == Head(bases)
             q == SourceCodeClassParser(w, cls)
             names == Keys(q.var_docstring) \cup Keys(q.var_annotations)
         IN  FoldBases(w,
                 [p EXCEPT !.var_docstring = SetDefaultAll(@, q.var_docstring),
                           !.var_annotations = SetDefaultAll(@, q.var_annotations),
                           !.definitions = MapSetDefaultAll(@, names, LAMBDA n : Location(cls, n))],
                 Tail(bases))

SourceCodeClassParser(w, c) ==
    LET own == Keys(ScanDoc(w, c)) \cup Keys(ScanAnn(w, c))
    IN  FoldBases(w,
            [obj |-> c,
             modulename |-> ModuleOf(c),
             qualname |-> QualnameOf(c),
             namespace |-> c,
             var_docstring |-> ScanDoc(w, c),
             var_annotations |-> ScanAnn(w, c),
             definitions |-> MapSetDefaultAll(NoDefinitions, own, LAMBDA n : Location(c, n))],
            Tail(Mro(c)))

----------------------------------------------------------------------------
(* resolve_annotations *)

\* the annotation texts written in class A name builtins (`float'); the others
\* name types of the documented program
NamesBuiltin(a) == a.form = "text" /\ a.src = "A"

\* the first loop: annotations[k] = __builtins__[v], where v names a builtin
ResolveBuiltins(ann) ==
    [i \in 1..Len(ann) |->
        IF NamesBuiltin(ann[i].v) THEN [k |-> ann[i].k, v |-> [ann[i].v EXCEPT !.form = "type"]]
        ELSE ann[i]]

\* the second loop: annotations[k] = v for the items of obj.__annotations__
RECURSIVE MergeRuntimeAnnotations(_, _, _)
MergeRuntimeAnnotations(ann, c, ns) ==
    IF ns = <<>> THEN ann
    ELSE MergeRuntimeAnnotations(SetItem(ann, Head(ns), [src |-> c, form |-> "type"]), c, Tail(ns))

\* the dictionary the caller handed in, as resolve_annotations leaves it
ResolvedInPlace(w, c, ann) ==
    MergeRuntimeAnnotations(ResolveBuiltins(ann), c,
        SelectSeq(NamesInOrder, LAMBDA n : n \in ClassLevelAnnotated(w, c)))

\* the dictionary resolve_annotations returns (pdoc's resolver evaluates every text)
resolve_annotations(w, c, ann) ==
    LET a == ResolvedInPlace(w, c, ann)
    IN  [i \in 1..Len(a) |-> [k |-> a[i].k, v |-> [a[i].v EXCEPT !.form = "type"]]]

\* SourceCodeParser.vars_sets of a class resolver
ClassVarsSets(w, p) ==
    Keys(p.var_docstring) \cup Keys(resolve_annotations(w, p.obj, p.var_annotations))

----------------------------------------------------------------------------
(* SourceCodeClassParser.member_objects *)

\* for name, obj in cls.__dict__.items()
RECURSIVE WalkDict(_, _, _, _)
WalkDict(w, cls, names, acc) ==
    IF names = <<>> THEN acc
    ELSE WalkDict(w, cls, Tail(names),
            [members |-> SetDefault(acc.members, Head(names), DictValue(w, cls, Head(names))),
             definitions |-> MapSet(acc.definitions, Head(names), Location(cls, Head(names)))])

\* for cls in self.obj.__mro__
RECURSIVE WalkMro(_, _, _)
WalkMro(w, mro, acc) ==
    IF mro = <<>> THEN acc
    ELSE WalkMro(w, Tail(mro), WalkDict(w, Head(mro), ClassDict(w, Head(mro)), acc))

\* the walk's result, had the identity attributes not been forced
OverrideNothing(w, c, attrs, acc) == acc

\* for attr in ['__init__', '__doc__', '__annotations__', '__dict__', '__module__']
RECURSIVE OverrideIdentity(_, _, _, _)
OverrideIdentity(w, c, attrs, acc) ==
    IF attrs = <<>> THEN acc
    ELSE OverrideIdentity(w, c, Tail(attrs),
            [members |-> SetItem(acc.members, Head(attrs), GetAttr(w, c, Head(attrs))),
             definitions |-> MapSet(acc.definitions, Head(attrs), Location(c, Head(attrs)))])

\* members['__doc__'] = cleandoc(members['__doc__'])
CleanClassDoc(members) ==
    IF Has(members, "__doc__") /\ Get(members, "__doc__") # None
    THEN SetItem(members, "__doc__", cleandoc(Get(members, "__doc__")))
    ELSE members

\* for name in self.vars_sets(): self.obj[name] raises, so v = empty
RECURSIVE IncludeScanned(_, _)
IncludeScanned(members, order) ==
    IF order = <<>> THEN members
    ELSE IncludeScanned(SetDefault(members, Head(order), empty), Tail(order))

\* is not None, is user-defined and has a docstring of its own
CustomWithCustomDocstring(shape) == shape = "user_doc"

\* the constructor special cases that end member_objects
ConstructorRule(w, c, members) ==
    LET init == IF Has(members, "__init__") THEN Get(members, "__init__")
                ELSE Val("wrapper", "object", "__init__")
        init_has_no_doc == DocOf(w, init) \in {NoDoc, ObjectDoc}
    IN  IF ~init_has_no_doc THEN members
        ELSE IF w.base = "abc" THEN DelItem(members, "__init__")
        ELSE IF w.base = "enum" THEN DelItem(members, "__init__")
        ELSE IF w.base = "dict" THEN DelItem(members, "__init__")
        ELSE IF CustomWithCustomDocstring(w.metaCall)
             THEN SetItem(members, "__init__", Val("function", "Meta", "__call__"))
        ELSE IF CustomWithCustomDocstring(w.newFn)
             THEN SetItem(members, "__init__", Val("function", c, "__new__"))
        ELSE members

\* member_objects(): the mapping it returns and the resolver as it leaves it.
\* `order' is the order in which the set vars_sets() is iterated.
ClassMemberObjects(w, p, order) ==
    LET c == p.obj
        walked == WalkMro(w, Mro(c), [members |-> NoKeys, definitions |-> p.definitions])
        forced == OverrideIdentity(w, c, IdentityAttrs, walked)
        merged == IncludeScanned(CleanClassDoc(forced.members), order)
    IN  [members |-> ConstructorRule(w, c, merged),
         parser |-> [p EXCEPT !.definitions = forced.definitions,
                              !.var_annotations = ResolvedInPlace(w, c, @)]]

----------------------------------------------------------------------------
(* Doc objects (analyser.py) *)

\* the `no annotation' sentinel
NoAnnotation == [src |-> "", form |-> "empty"]

\* a docstring: where the text comes from
NoDocstring == <<"", "", "">>

\* a resolver attribute: <<>> is None, <<p>> is the resolver p
NoParser == <<>>

\* a cached_property slot: <<>> before the first access, <<x>> afterwards
Unset == <<>>

Doc(type, modulename, qualname, obj, wrapped, taken_from, docstring, annotation, default_value, parser) ==
    [type |-> type, modulename |-> modulename, qualname |-> qualname, obj |-> obj,
     wrapped |-> wrapped, taken_from |-> taken_from, docstring |-> docstring,
     annotation |-> annotation, default_value |-> default_value, parser |-> parser]

\* Function.__init__: a classmethod or staticmethod is unwrapped
Unwrapped(func) ==
    IF func.kind \in {"classmethod", "staticmethod"} THEN [func EXCEPT !.kind = "function"] ELSE func

\* Function.docstring: safe_getdoc of the unwrapped callable
FunctionDocstring(obj) == <<"getdoc", obj.cls, obj.nm>>

Function(modulename, qualname, func, taken_from) ==
    Doc("Function", modulename, qualname, Unwrapped(func), func, taken_from,
        FunctionDocstring(Unwrapped(func)), NoAnnotation, empty, NoParser)

Variable(modulename, qualname, taken_from, docstring, annotation, default_value) ==
    Doc("Variable", modulename, qualname, None, None, taken_from,
        docstring, annotation, default_value, NoParser)

Class(modulename, qualname, obj, taken_from, parser) ==
    Doc("Class", modulename, qualname, obj, None, taken_from,
        <<"getdoc", obj.cls, obj.nm>>, NoAnnotation, empty, parser)

\* Doc.name: the last segment of the full name
DocName(d) == d.qualname[Len(d.qualname)]

----------------------------------------------------------------------------
(* SourceCodeParser.members: raw values to Doc objects *)

IsClassmethod(obj) == obj.kind \in {"classmethod", "classmethod_property"}

IsProperty(obj) == obj.kind \in {"property", "cached_property", "classmethod_property"}

\* inspect.isroutine: functions, builtins, and non-data descriptors
IsRoutine(obj) == obj.kind \in {"function", "classmethod", "staticmethod", "wrapper"}

\* inspect.isclass(obj) and obj is not empty and not isinstance(obj, GenericAlias)
IsDocumentedClass(obj) == obj.kind = "class"

IsModule(obj) == obj.kind = "module"

IsDataDescriptor(obj) == obj.kind = "datadesc"

\* dict.get(name, empty) on an annotation table
AnnotationOf(ann, name) == IF Has(ann, name) THEN Get(ann, name) ELSE NoAnnotation

\* the class object a class-valued attribute refers to
ReferredClass(obj) == obj.cls

\* an override that only fills in a docstring introspection left empty
DocstringOverrideWhenUndocumented(doc, docstrings, name) ==
    IF Has(docstrings, name) /\ Get(docstrings, name) # NoDocstring /\ doc.docstring = NoDocstring
    THEN [doc EXCEPT !.docstring = Get(docstrings, name)]
    ELSE doc

\* if self.var_docstring.get(name): doc.docstring = self.var_docstring[name]
DocstringOverride(doc, docstrings, name) ==
    IF Has(docstrings, name) /\ Get(docstrings, name) # NoDocstring
    THEN [doc EXCEPT !.docstring = Get(docstrings, name)]
    ELSE doc

\* One pass of the loop body: the Doc for (name, obj), or the exception it raises.
\* `sub' is the resolver built for a class-valued member.
MemberDoc(modulename, qualname, name, obj, taken_from, annotations, docstrings, sub) ==
    LET q == Append(qualname, name)
        doc ==
            IF IsProperty(obj)
            THEN Variable(modulename, q, taken_from, <<"getdoc", obj.cls, obj.nm>>,
                          [src |-> obj.cls, form |-> "return"], empty)
            ELSE IF IsRoutine(obj) THEN Function(modulename, q, obj, taken_from)
            ELSE IF IsDocumentedClass(obj) THEN Class(modulename, q, obj, taken_from, <<sub>>)
            ELSE IF IsDataDescriptor(obj)
            THEN Variable(modulename, q, taken_from, <<"descriptor", obj.cls, obj.nm>>,
                          AnnotationOf(annotations, name), empty)
            ELSE Variable(modulename, q, taken_from, NoDocstring,
                          AnnotationOf(annotations, name), obj)
    IN  IF IsModule(obj) /\ ~IsProperty(obj) /\ ~IsRoutine(obj) /\ ~IsDocumentedClass(obj)
        THEN [err |-> "TypeError", doc |-> doc]
        ELSE [err |-> "",
              doc |-> DocstringOverride(doc, docstrings, name)]

\* SourceCodeClassParser._taken_from: the definitions table, or the fallback,
\* whose message reads self.fullname, which a resolver does not have
ClassTakenFrom(p, name) ==
    IF name \in DOMAIN p.definitions THEN [err |-> "", loc |-> p.definitions[name]]
    ELSE [err |-> "AttributeError", loc |-> <<p.modulename, Append(p.qualname, name)>>]

\* the loop of members() over the items of member_objects(), for a class resolver
RECURSIVE ClassMembersLoop(_, _, _, _)
ClassMembersLoop(w, p, items, acc) ==
    IF items = <<>> \/ acc.err # "" THEN acc
    ELSE LET name == Head(items).k
             obj == Head(items).v
             tf == ClassTakenFrom(p, name)
             m == MemberDoc(p.modulename, p.qualname, name, obj, tf.loc,
                            resolve_annotations(w, p.obj, p.var_annotations), p.var_docstring,
                            IF IsDocumentedClass(obj)
                            THEN SourceCodeClassParser(w, ReferredClass(obj)) ELSE p)
         IN  IF tf.err # "" THEN [acc EXCEPT !.err = tf.err]
             ELSE IF m.err # "" THEN [acc EXCEPT !.err = m.err]
             ELSE ClassMembersLoop(w, p, Tail(items),
                      [acc EXCEPT !.members = SetItem(@, DocName(m.doc), m.doc)])

\* members() of a class resolver: the mapping, the exception, the resolver afterwards
ClassMembers(w, p, order) ==
    LET mo == ClassMemberObjects(w, p, order)
        r == ClassMembersLoop(w, mo.parser, mo.members, [members |-> NoKeys, err |-> ""])
    IN  [members |-> r.members, err |-> r.err, parser |-> mo.parser, raw |-> mo.members]

----------------------------------------------------------------------------
(* Namespace: members grouped by origin *)

\* ".".join(qualname.rsplit(".", maxsplit=1)[:-1])
ParentQualname(q) == IF q = <<>> THEN <<>> ELSE SubSeq(q, 1, Len(q) - 1)

\* Namespace._members_by_origin: location -> the names of the members taken from it
RECURSIVE MembersByOrigin(_, _)
MembersByOrigin(members, locations) ==
    IF members = <<>> THEN locations
    ELSE LET member == Head(members).v
             key == <<member.taken_from[1], ParentQualname(member.taken_from[2])>>
             there == IF Has(locations, key) THEN Get(locations, key) ELSE <<>>
         IN  MembersByOrigin(Tail(members), SetItem(locations, key, Append(there, Head(members).k)))

\* dict.get(key, [])
GetList(d, key) == IF Has(d, key) THEN Get(d, key) ELSE <<>>

\* Class.own_members: the list it returns, and _members_by_origin afterwards
\* (`members += ...' extends in place the list that the mapping holds)
OwnMembers(d, by_origin) ==
    LET here == <<d.modulename, d.qualname>>
        own == IF d.taken_from # here
               THEN GetList(by_origin, here) \o GetList(by_origin, d.taken_from)
               ELSE GetList(by_origin, here)
    IN  [own |-> own,
         by_origin |-> IF Has(by_origin, here) THEN SetItem(by_origin, here, own) ELSE by_origin]

\* a filter that forgets the taken-from location of the class itself
InheritedMembersButOwnOnly(d, by_origin) ==
    SelectSeq(by_origin, LAMBDA e : e.k # <<d.modulename, d.qualname>>)

\* Namespace.inherited_members
InheritedMembers(d, by_origin) ==
    SelectSeq(by_origin, LAMBDA e : e.k \notin {d.taken_from, <<d.modulename, d.qualname>>})

----------------------------------------------------------------------------
(* The class sub-system: a class resolver and the Class doc over it *)

\* how the Class doc of class c came to be: listed by the module that defines
\* the class, by a module that imports it, or as the value of an attribute X
\* of another class K
DocVariants == {"direct", "reexport", "attribute"}

NewClass(w, c, variant) ==
    LET parser == <<SourceCodeClassParser(w, c)>>
        origin == <<ModuleOf(c), QualnameOf(c)>>
    IN  CASE variant = "direct"    -> Class(ModuleOf(c), QualnameOf(c), ClassObject(c), origin, parser)
          [] variant = "reexport"  -> Class("api", QualnameOf(c), ClassObject(c), origin, parser)
          [] variant = "attribute" -> Class("pkg", <<"K", "X">>, ClassObject(c), <<"pkg", <<"K", "X">>>>, parser)

\* the cached properties of a Namespace
NoCache == [members |-> Unset, by_origin |-> Unset, own_members |-> Unset, inherited_members |-> Unset]

\* A declaration: class body c binds name n, in one of these forms:
\*   "dict"  an assignment or a def in the class body (n is in c.__dict__)
\*   "scan"  an annotated, documented assignment in a method (self.n: T = ...),
\*           which only the scanner sees
\*   "both"  an annotated, documented assignment in the class body
Forms(n) == IF IsVarName(n) THEN {"dict", "scan", "both"} ELSE {"dict"}

DeclPool == {d \in Names \X Classes \X {"dict", "scan", "both"} : d[3] \in Forms(d[1])}

\* the sets of at most k declarations, no two of them for the same class and name
RECURSIVE DeclSets(_)
DeclSets(k) ==
    IF k = 0 THEN {{}}
    ELSE LET smaller == DeclSets(k - 1)
         IN  smaller \cup
             UNION {{S \cup {d} : d \in {x \in DeclPool : \A y \in S : <<y[1], y[2]>> # <<x[1], x[2]>>}} :
                    S \in smaller}

PlainCtor == [initIn |-> {"A"}, initDoc |-> CustomDoc, base |-> "object",
              metaCall |-> "builtin", newFn |-> "builtin"]

World(decls, fkind, ctor) ==
    [dictIn |-> [n \in Names |-> {c \in Classes : <<n, c, "dict">> \in decls \/ <<n, c, "both">> \in decls}],
     scanIn |-> [n \in Names |-> {c \in Classes : <<n, c, "scan">> \in decls \/ <<n, c, "both">> \in decls}],
     fkind |-> fkind, fref |-> "A",
     initIn |-> ctor.initIn, initDoc |-> ctor.initDoc, base |-> ctor.base,
     metaCall |-> ctor.metaCall, newFn |-> ctor.newFn]

\* the programs of at most MaxDecls declarations
ClassWorlds == {World(S, "function", PlainCtor) : S \in DeclSets(MaxDecls)}

\* where the hierarchy defines __init__: nowhere, or in one class
InitPlacements == {{}} \cup {{c} : c \in Classes}

\* what a class can be built on
BaseKinds == {"object", "abc", "enum", "dict"}

\* a metaclass __call__ or a __new__: absent, a builtin's, user-defined
\* without a docstring, user-defined with one
CallableShapes == {"none", "builtin", "user_nodoc", "user_doc"}

CtorTraits ==
    [initIn : InitPlacements, initDoc : {NoDoc, CustomDoc}, base : BaseKinds,
     metaCall : CallableShapes, newFn : CallableShapes]

\* the programs without attributes, of every constructor arrangement
CtorWorlds == {World({}, "function", t) : t \in CtorTraits}

ModuleIdle ==
    /\ mworld = <<>>
    /\ mparser = NoParser
    /\ mop = ""
    /\ mret = NoKeys
    /\ mdocs = NoKeys
    /\ msubs = <<>>
    /\ merr = ""
    /\ mwarn = <<>>

EqualityIdle ==
    /\ eleft = <<>>
    /\ eright = <<>>
    /\ eresult = <<>>

LookupIdle ==
    /\ gworld = <<>>
    /\ gdoc = <<>>
    /\ gquery = <<>>
    /\ gresult = <<>>
    /\ gcache = NoKeys

ClassIdle ==
    /\ cparser = NoParser
    /\ cdoc = <<>>
    /\ cret = NoKeys
    /\ cerr = ""

ScannerIdle ==
    /\ scanner = <<>>
    /\ slog = <<>>
    /\ sret = <<>>

RegistryIdle ==
    /\ rsuits = <<>>
    /\ rcall = <<>>
    /\ rout = <<>>

ReSTIdle ==
    /\ ddoc = <<>>
    /\ dcache = <<>>
    /\ dcall = <<>>
    /\ dout = <<>>

SuitsIdle ==
    /\ tsuits = <<>>
    /\ tdirs = {}

ProvenanceIdle ==
    /\ pcall = <<>>
    /\ pout = <<>>

SignatureIdle ==
    /\ fdoc = <<>>
    /\ fsig = <<>>
    /\ fwithout = <<>>
    /\ fparams = <<>>

DerivedIdle ==
    /\ vdoc = <<>>
    /\ vcache = <<>>
    /\ vcall = <<>>
    /\ vret = <<>>

ViewsIdle ==
    /\ nworld = <<>>
    /\ ndoc = <<>>
    /\ ncall = <<>>
    /\ nout = <<>>

\* every sub-system beside the four above is idle, but the one named
ExtIdleExcept(own) ==
    /\ IF own # "scanner" THEN ScannerIdle ELSE TRUE
    /\ IF own # "registry" THEN RegistryIdle ELSE TRUE
    /\ IF own # "reST" THEN ReSTIdle ELSE TRUE
    /\ IF own # "suits" THEN SuitsIdle ELSE TRUE
    /\ IF own # "provenance" THEN ProvenanceIdle ELSE TRUE
    /\ IF own # "signature" THEN SignatureIdle ELSE TRUE
    /\ IF own # "views" THEN ViewsIdle ELSE TRUE
    /\ IF own # "derived" THEN DerivedIdle ELSE TRUE

ExtIdle == ExtIdleExcept("")

\* the four sub-systems above are idle
CoreIdle ==
    /\ cworld = <<>>
    /\ ClassIdle
    /\ ModuleIdle
    /\ EqualityIdle
    /\ LookupIdle

Init ==
    /\ ExtIdle
    /\ cworld \in ClassWorlds
    /\ ClassIdle
    /\ ModuleIdle
    /\ EqualityIdle
    /\ LookupIdle

\* SourceCodeParser.__init__ reads getsource(obj), and the chain loop builds a
\* resolver for every ancestor but object: the built-in dict has no source
HasSource(w, c) == w.base # "dict"

\* Class(modulename, qualname, obj, taken_from, SourceCodeClassParser(obj))
NewClassDoc(c, variant) ==
    /\ cparser = NoParser
    /\ cerr = ""
    /\ IF HasSource(cworld, c)
       THEN /\ cparser' = <<SourceCodeClassParser(cworld, c)>>
            /\ cdoc' = <<[doc |-> NewClass(cworld, c, variant), cache |-> NoCache]>>
            /\ cerr' = ""
       ELSE /\ cerr' = "TypeError"
            /\ UNCHANGED <<cparser, cdoc>>
    /\ UNCHANGED <<cworld, cret, mvars, evars, gvars, xvars>>

\* parser.member_objects()
CallMemberObjects ==
    /\ cparser # NoParser
    /\ \E order \in Orders(ClassVarsSets(cworld, cparser[1])) :
          LET mo == ClassMemberObjects(cworld, cparser[1], order)
          IN  /\ cret' = mo.members
              /\ cparser' = <<mo.parser>>
    /\ UNCHANGED <<cworld, cdoc, cerr, mvars, evars, gvars, xvars>>

\* what the first access of doc.members leaves behind
MembersAccessed(order) ==
    LET r == ClassMembers(cworld, cparser[1], order)
    IN  [cache |-> IF r.err = "" THEN [cdoc[1].cache EXCEPT !.members = <<r.members>>]
                   ELSE cdoc[1].cache,
         parser |-> <<r.parser>>,
         raw |-> r.raw,
         err |-> r.err]

\* what the first access of doc._members_by_origin leaves behind
ByOriginAccessed(cache) ==
    IF cache.by_origin # Unset THEN cache
    ELSE [cache EXCEPT !.by_origin = <<MembersByOrigin(cache.members[1], NoKeys)>>]

\* doc.members, first access
AccessMembers ==
    /\ cdoc # <<>>
    /\ cdoc[1].cache.members = Unset
    /\ \E order \in Orders(ClassVarsSets(cworld, cparser[1])) :
          LET a == MembersAccessed(order)
          IN  /\ cdoc' = <<[cdoc[1] EXCEPT !.cache = a.cache]>>
              /\ cparser' = a.parser
              /\ cret' = a.raw
              /\ cerr' = a.err
    /\ UNCHANGED <<cworld, mvars, evars, gvars, xvars>>

\* doc.own_members, first access
AccessOwnMembers ==
    /\ cdoc # <<>>
    /\ cdoc[1].cache.members # Unset
    /\ cdoc[1].cache.own_members = Unset
    /\ LET c1 == ByOriginAccessed(cdoc[1].cache)
           r == OwnMembers(cdoc[1].doc, c1.by_origin[1])
       IN  cdoc' = <<[cdoc[1] EXCEPT !.cache =
                        [c1 EXCEPT !.by_origin = <<r.by_origin>>, !.own_members = <<r.own>>]]>>
    /\ UNCHANGED <<cworld, cparser, cret, cerr, mvars, evars, gvars, xvars>>

\* doc.inherited_members, first access
AccessInheritedMembers ==
    /\ cdoc # <<>>
    /\ cdoc[1].cache.members # Unset
    /\ cdoc[1].cache.inherited_members = Unset
    /\ LET c1 == ByOriginAccessed(cdoc[1].cache)
       IN  cdoc' = <<[cdoc[1] EXCEPT !.cache =
                        [c1 EXCEPT !.inherited_members = <<InheritedMembers(cdoc[1].doc, c1.by_origin[1])>>]]>>
    /\ UNCHANGED <<cworld, cparser, cret, cerr, mvars, evars, gvars, xvars>>

Next ==
    \/ \E c \in Classes, variant \in DocVariants : NewClassDoc(c, variant)
    \/ CallMemberObjects
    \/ AccessMembers
    \/ AccessOwnMembers
    \/ AccessInheritedMembers

Spec == Init /\ [][Next]_vars

\* the names _taken_from is asked about; nothing declares zz
ProvenanceNames == Names \cup {"__init__", "zz"}

\* parser._taken_from(name, obj); self.definitions runs member_objects() first
CallTakenFrom(name) ==
    /\ cparser # NoParser
    /\ \E order \in Orders(ClassVarsSets(cworld, cparser[1])) :
          LET mo == ClassMemberObjects(cworld, cparser[1], order)
          IN  /\ cparser' = <<mo.parser>>
              /\ pout' = ClassTakenFrom(mo.parser, name)
    /\ pcall' = <<"_taken_from", name>>
    /\ UNCHANGED <<cworld, cdoc, cret, cerr, mvars, evars, gvars, pxvars>>

NextProvenance ==
    \/ \E c \in Classes, variant \in DocVariants : NewClassDoc(c, variant)
    \/ CallMemberObjects
    \/ \E name \in ProvenanceNames : CallTakenFrom(name)

SpecProvenance == Init /\ [][NextProvenance]_vars

InitCtor ==
    /\ ExtIdle
    /\ cworld \in CtorWorlds
    /\ ClassIdle
    /\ ModuleIdle
    /\ EqualityIdle
    /\ LookupIdle

SpecCtor == InitCtor /\ [][Next]_vars

\* the programs of both kinds: attributes declared along the hierarchy, and
\* every constructor arrangement
InitResolver ==
    /\ ExtIdle
    /\ cworld \in ClassWorlds \cup CtorWorlds
    /\ ClassIdle
    /\ ModuleIdle
    /\ EqualityIdle
    /\ LookupIdle

SpecResolver == InitResolver /\ [][Next]_vars

----------------------------------------------------------------------------
(* A module and its resolver (SourceCodeModuleParser) *)

\* the module under documentation, a package when it has child modules
ThisModule == "pkg"

\* the names the module's source can bind, in definition order; a child
\* module of the package is called by the name it has on disk
ModuleNames == <<"x", "y">>

\* (f"{package}.{name}") for the children of the package
Dotted(n) == CASE n = "x" -> "pkg.x" [] n = "y" -> "pkg.y" [] OTHER -> n

\* sys.modules[...].__name__ of inspect_util, where the sentinel is declared
SentinelModule == "VPLCodeGenerator.inspect_util"

\* What the source makes of a name.  Bound in the module's __dict__:
\*   function, class, instance, typevar   declared in this module
\*   imported_function                    declared in module lib
\*   literal                              a number or string, undocumented
\*   documented                           x: T = value, with a docstring
\*   documented_function                  x = f, f a function of this module, with a docstring
\*   documented_class                     x = B1, with a docstring
\*   documented_blank                     x = value, with an empty doc comment
\*   module                               a child module, imported by __init__
\*   property, classmethod_property, datadesc, alias (list[int]), sentinel
\* Not bound:
\*   annotated               x: T
\*   annotated_documented    x: T, with a docstring
\*   child                   a child module that __init__ does not import
\*   importable              import_module(name) returns a module
\*   unimportable            import_module(name) raises ModuleNotFoundError
\*   import_runtime_error    import_module(name) raises RuntimeError
\*   absent                  nothing at all (import_module raises as well)
DictShapes ==
    {"function", "imported_function", "class", "instance", "typevar", "literal",
     "documented", "documented_function", "documented_class", "documented_blank",
     "module", "property", "classmethod_property", "datadesc", "alias", "sentinel"}

BareShapes ==
    {"annotated", "annotated_documented", "child", "importable", "unimportable",
     "import_runtime_error", "absent"}

\* module.__dict__[n]
ModuleDictValue(w, n) ==
    CASE w.shape[n] \in {"function", "documented_function"} -> Val("function", ThisModule, n)
      [] w.shape[n] = "imported_function" -> Val("function", "lib", n)
      [] w.shape[n] \in {"class", "documented_class"} -> ClassObject("B1")
      [] w.shape[n] = "instance"          -> Val("instance", ThisModule, n)
      [] w.shape[n] = "typevar"           -> Val("typevar", ThisModule, n)
      [] w.shape[n] = "module"            -> Val("module", ThisModule, n)
      [] w.shape[n] = "datadesc"          -> Val("datadesc", ThisModule, n)
      [] w.shape[n] = "alias"             -> Val("alias", "builtins", n)
      [] w.shape[n] = "sentinel"          -> empty
      [] w.shape[n] \in {"property", "classmethod_property"} -> Val(w.shape[n], "", n)
      [] OTHER                            -> Val("plain", "", n)

\* the keys of module.__dict__, in definition order
ModuleDict(w) == SelectSeq(ModuleNames, LAMBDA n : w.shape[n] \in DictShapes)

\* module.__name__ of a module value
ModuleNameOf(obj) == IF obj.cls = ThisModule THEN Dotted(obj.nm) ELSE obj.nm

\* safe_getattr(obj, "__module__", None): <<>> is None
SafeModule(obj) ==
    CASE obj.kind = "class" -> <<ModuleOf(obj.cls)>>
      [] obj.kind = "empty" -> <<SentinelModule>>
      [] obj.kind \in {"function", "instance", "typevar", "datadesc", "alias"} -> <<obj.cls>>
      [] OTHER -> <<>>

\* safe_getattr(obj, "__qualname__", None): <<>> is None
SafeQualname(obj) ==
    CASE obj.kind = "class"    -> <<QualnameOf(obj.cls)>>
      [] obj.kind = "function" -> <<<<obj.nm>>>>
      [] obj.kind = "alias"    -> <<<<"list">>>>
      [] obj.kind = "empty"    -> <<<<"empty">>>>
      [] OTHER -> <<>>

\* safe_getattr(inspect.getmodule(obj), "__name__", None): <<>> is None
GetModuleName(obj) ==
    IF obj.kind = "module" THEN <<ModuleNameOf(obj)>> ELSE SafeModule(obj)

\* the scanner's tables for the module namespace ''
ModuleScanDoc(w) ==
    LET ns == SelectSeq(ModuleNames, LAMBDA n : w.shape[n] \in
                  {"documented", "annotated_documented", "documented_function",
                   "documented_class", "documented_blank"})
    IN  [i \in 1..Len(ns) |->
            [k |-> ns[i],
             v |-> IF w.shape[ns[i]] = "documented_blank" THEN NoDocstring
                   ELSE <<"scan", ThisModule, ns[i]>>]]

ModuleAnnotated(w) ==
    SelectSeq(ModuleNames, LAMBDA n : w.shape[n] \in {"documented", "annotated", "annotated_documented"})

ModuleScanAnn(w) ==
    LET ns == ModuleAnnotated(w)
    IN  [i \in 1..Len(ns) |-> [k |-> ns[i], v |-> [src |-> ThisModule, form |-> "text"]]]

\* SourceCodeModuleParser(obj)
SourceCodeModuleParser(w) ==
    [obj |-> ThisModule,
     modulename |-> ThisModule,
     qualname |-> <<>>,
     namespace |-> "",
     var_docstring |-> ModuleScanDoc(w),
     var_annotations |-> ModuleScanAnn(w),
     definitions |-> NoDefinitions]

\* the cached scanner table, as the property var_annotations leaves it
ModuleResolvedInPlace(w, ann) ==
    MergeRuntimeAnnotations(ResolveBuiltins(ann), ThisModule, ModuleAnnotated(w))

\* SourceCodeModuleParser.var_annotations
ModuleVarAnnotations(w, p) ==
    LET a == ModuleResolvedInPlace(w, p.var_annotations)
    IN  [i \in 1..Len(a) |-> [k |-> a[i].k, v |-> [a[i].v EXCEPT !.form = "type"]]]

\* SourceCodeParser.vars_sets of a module resolver
ModuleVarsSets(w, p) == Keys(p.var_docstring) \cup Keys(ModuleVarAnnotations(w, p))

\* SourceCodeModuleParser._taken_from
ModuleTakenFrom(p, name, obj) ==
    LET here == <<p.modulename, Append(p.qualname, name)>>
        mod == SafeModule(obj)
        qual == SafeQualname(obj)
    IN  IF obj = empty THEN here
        ELSE IF obj.kind = "module" THEN <<ModuleNameOf(obj), <<>>>>
        ELSE IF mod # <<>> /\ qual # <<>> THEN <<mod[1], qual[1]>>
        ELSE <<IF mod # <<>> THEN mod[1] ELSE p.modulename, Append(p.qualname, name)>>

\* import_module(name): the module, or the exception
ImportModule(w, name) ==
    CASE w.shape[name] = "importable"           -> [err |-> "", val |-> Val("module", "", name)]
      [] w.shape[name] = "import_runtime_error" -> [err |-> "RuntimeError", val |-> empty]
      [] OTHER                                  -> [err |-> "ModuleNotFoundError", val |-> empty]

\* the loop over __all__
RECURSIVE ListedLoop(_, _, _, _)
ListedLoop(w, p, all, acc) ==
    IF all = <<>> \/ acc.err # "" THEN acc
    ELSE LET name == Head(all)
             imp == ImportModule(w, name)
         IN  IF name \in Range(ModuleDict(w))
             THEN ListedLoop(w, p, Tail(all),
                      [acc EXCEPT !.members = SetItem(@, name, ModuleDictValue(w, name))])
             ELSE IF name \in Keys(ModuleVarAnnotations(w, p))
             THEN ListedLoop(w, p, Tail(all),
                      [acc EXCEPT !.members = SetItem(@, name, empty), !.resolved = TRUE])
             ELSE IF imp.err = ""
             THEN ListedLoop(w, p, Tail(all),
                      [acc EXCEPT !.members = SetItem(@, name, imp.val), !.resolved = TRUE])
             ELSE IF imp.err = "RuntimeError"
             THEN ListedLoop(w, p, Tail(all),
                      [acc EXCEPT !.members = SetItem(@, name, empty), !.resolved = TRUE,
                                  !.warned = Append(@, name)])
             ELSE [acc EXCEPT !.err = imp.err, !.resolved = TRUE]

\* the loop over the items of module.__dict__
RECURSIVE DictLoop(_, _, _, _)
DictLoop(w, p, names, members) ==
    IF names = <<>> THEN members
    ELSE LET name == Head(names)
             obj == ModuleDictValue(w, name)
             declared_in_this_module == GetModuleName(obj) = <<ThisModule>>
             include_in == \/ name \in ModuleVarsSets(w, p)
                           \/ declared_in_this_module /\ obj.kind # "typevar"
         IN  DictLoop(w, p, Tail(names),
                 IF include_in THEN SetItem(members, name, obj) ELSE members)

\* for name in self.var_docstring: members.setdefault(name, empty)
RECURSIVE DocumentedLoop(_, _)
DocumentedLoop(names, members) ==
    IF names = <<>> THEN members
    ELSE DocumentedLoop(Tail(names), SetDefault(members, Head(names), empty))

\* safe_getattr(module, "__all__", False): <<>> when the module has none
ModuleAll(w) == w.all

\* the truth value Python gives that attribute
Truthy(all) == all # <<>> /\ all[1] # <<>>

\* SourceCodeModuleParser.member_objects: the mapping, the exception, the
\* names warned about, and whether the annotation table was resolved
ModuleMemberObjects(w, p) ==
    LET all == ModuleAll(w)
        start == [members |-> NoKeys, err |-> "", warned |-> <<>>, resolved |-> FALSE]
    IN  IF Truthy(all) THEN ListedLoop(w, p, all[1], start)
        ELSE [start EXCEPT
                 !.members = DocumentedLoop(KeySeq(p.var_docstring),
                                 DictLoop(w, p, ModuleDict(w), NoKeys)),
                 !.resolved = ModuleDict(w) # <<>>]

\* inspect_util.is_package: the module has a __path__
IsPackage(w) == \E n \in Range(ModuleNames) : w.shape[n] \in {"module", "child"}

\* pkgutil.iter_modules(module.__path__): the children on disk, sorted
IterModules(w) == SelectSeq(ModuleNames, LAMBDA n : w.shape[n] \in {"module", "child"})

\* SourceCodeModuleParser.submodules
Submodules(w) ==
    LET mod_all == ModuleAll(w)
        include(name) == IF mod_all # <<>> THEN name \in Range(mod_all[1]) ELSE TRUE
        kept == SelectSeq(IterModules(w), include)
    IN  IF ~IsPackage(w) THEN <<>>
        ELSE [i \in 1..Len(kept) |-> Val("module", ThisModule, kept[i])]

\* the classes behind a class-valued module attribute: no attributes, plain constructors
PlainWorld == World({}, "function", PlainCtor)

\* the loop of members() over the items of member_objects(), for a module resolver
RECURSIVE ModuleMembersLoop(_, _, _, _)
ModuleMembersLoop(w, p, items, acc) ==
    IF items = <<>> \/ acc.err # "" THEN acc
    ELSE LET name == Head(items).k
             obj == Head(items).v
             m == MemberDoc(p.modulename, p.qualname, name, obj, ModuleTakenFrom(p, name, obj),
                            ModuleVarAnnotations(w, p), p.var_docstring,
                            IF IsDocumentedClass(obj)
                            THEN SourceCodeClassParser(PlainWorld, ReferredClass(obj)) ELSE p)
         IN  IF m.err # "" THEN [acc EXCEPT !.err = m.err]
             ELSE ModuleMembersLoop(w, p, Tail(items),
                      [acc EXCEPT !.members = SetItem(@, DocName(m.doc), m.doc)])

\* members() of a module resolver: the Docs, the exception, the raw mapping
\* it went over, the names warned about, whether the annotation table was resolved
ModuleMembers(w, p) ==
    LET mo == ModuleMemberObjects(w, p)
        r == ModuleMembersLoop(w, p, mo.members, [members |-> NoKeys, err |-> ""])
    IN  IF mo.err # ""
        THEN [members |-> NoKeys, err |-> mo.err, raw |-> NoKeys, raw_err |-> mo.err,
              warned |-> mo.warned, resolved |-> mo.resolved]
        ELSE [members |-> r.members, err |-> r.err, raw |-> mo.members, raw_err |-> "",
              warned |-> mo.warned,
              resolved |-> mo.resolved \/ mo.members # NoKeys]

\* __all__: absent, or a list of at most MaxAll names
AllLists == UNION {[1..k -> Range(ModuleNames)] : k \in 0..MaxAll}

ModuleWorlds ==
    [shape : [Range(ModuleNames) -> DictShapes \cup BareShapes],
     all : {<<>>} \cup {<<l>> : l \in AllLists}]

InitModule ==
    /\ ExtIdle
    /\ mworld \in ModuleWorlds
    /\ mparser = <<SourceCodeModuleParser(mworld)>>
    /\ mop = ""
    /\ mret = NoKeys
    /\ mdocs = NoKeys
    /\ msubs = <<>>
    /\ merr = ""
    /\ mwarn = <<>>
    /\ cworld = <<>>
    /\ ClassIdle
    /\ EqualityIdle
    /\ LookupIdle

\* the resolver after a call that did, or did not, read var_annotations
Resolved(w, p, resolved) ==
    IF resolved THEN [p EXCEPT !.var_annotations = ModuleResolvedInPlace(w, @)] ELSE p

\* parser.member_objects()
CallModuleMemberObjects ==
    /\ mparser # NoParser
    /\ LET r == ModuleMemberObjects(mworld, mparser[1])
       IN  /\ mop' = "member_objects"
           /\ mret' = (IF r.err = "" THEN r.members ELSE NoKeys)
           /\ merr' = r.err
           /\ mwarn' = r.warned
           /\ mparser' = <<Resolved(mworld, mparser[1], r.resolved)>>
    /\ mdocs' = NoKeys
    /\ msubs' = <<>>
    /\ UNCHANGED <<mworld, cvars, evars, gvars, xvars>>

\* parser.members()
CallModuleMembers ==
    /\ mparser # NoParser
    /\ LET r == ModuleMembers(mworld, mparser[1])
       IN  /\ mop' = "members"
           /\ mret' = r.raw
           /\ mdocs' = (IF r.err = "" THEN r.members ELSE NoKeys)
           /\ merr' = r.err
           /\ mwarn' = r.warned
           /\ mparser' = <<Resolved(mworld, mparser[1], r.resolved)>>
    /\ msubs' = <<>>
    /\ UNCHANGED <<mworld, cvars, evars, gvars, xvars>>

\* parser.submodules()
CallSubmodules ==
    /\ mparser # NoParser
    /\ mop' = "submodules"
    /\ msubs' = Submodules(mworld)
    /\ mret' = NoKeys
    /\ mdocs' = NoKeys
    /\ merr' = ""
    /\ mwarn' = <<>>
    /\ UNCHANGED <<mworld, mparser, cvars, evars, gvars, xvars>>

NextModule ==
    \/ CallModuleMemberObjects
    \/ CallModuleMembers
    \/ CallSubmodules

SpecModule == InitModule /\ [][NextModule]_vars

----------------------------------------------------------------------------
(* Doc equality (the __eq__ methods of analyser.py) *)

\* Module(modulename, qualname, obj, taken_from, parser)
Module(modulename, qualname, obj, taken_from, parser) ==
    Doc("Module", modulename, qualname, obj, None, taken_from,
        <<"getdoc", obj.cls, obj.nm>>, NoAnnotation, empty, parser)

\* SourceCodeParser.__eq__ on two resolver attributes; None == None
ParserEq(p, q) ==
    IF p = NoParser \/ q = NoParser THEN p = NoParser /\ q = NoParser
    ELSE p[1].obj = q[1].obj

\* Namespace.__eq__
NamespaceEq(self, other) ==
    /\ self.type = other.type
    /\ self.modulename = other.modulename
    /\ self.qualname = other.qualname
    /\ self.obj = other.obj
    /\ self.taken_from = other.taken_from
    /\ ParserEq(self.parser, other.parser)

\* Function.__eq__
FunctionEq(self, other) ==
    /\ other.type = "Function"
    /\ self.modulename = other.modulename
    /\ self.qualname = other.qualname
    /\ self.wrapped = other.wrapped
    /\ self.taken_from = other.taken_from

\* Variable.__eq__
VariableEq(self, other) ==
    /\ other.type = "Variable"
    /\ self.modulename = other.modulename
    /\ self.qualname = other.qualname
    /\ self.taken_from = other.taken_from
    /\ self.default_value = other.default_value

\* left == right: the __eq__ of the left operand's class
DocEq(left, right) ==
    CASE left.type \in {"Module", "Class"} -> NamespaceEq(left, right)
      [] left.type = "Function"            -> FunctionEq(left, right)
      [] left.type = "Variable"            -> VariableEq(left, right)

\* the Docs that are compared
EqModules == {"pkg", "lib"}

EqQualnames == {<<"f">>, <<"K", "f">>}

EqOrigins == {<<"pkg", <<"f">>>>, <<"lib", <<"f">>>>}

\* a module resolver over the module of that name
ModuleParserOver(name) ==
    [SourceCodeModuleParser([shape |-> [n \in Range(ModuleNames) |-> "absent"], all |-> <<>>])
        EXCEPT !.obj = name, !.modulename = name]

ClassDocs ==
    {Class(m, q, ClassObject(c), t, p) :
        m \in EqModules, q \in EqQualnames, t \in EqOrigins, c \in {"A", "B1"},
        p \in {NoParser, <<SourceCodeClassParser(PlainWorld, "A")>>}}

ModuleDocs ==
    {Module(m, q, Val("module", "", n), t, p) :
        m \in EqModules, q \in EqQualnames, t \in EqOrigins, n \in {"x", "y"},
        p \in {NoParser, <<ModuleParserOver("x")>>}}

FunctionDocs ==
    {Function(m, q, f, t) :
        m \in EqModules, q \in EqQualnames, t \in EqOrigins,
        f \in {Val("function", "A", "f"), Val("staticmethod", "A", "f"), Val("function", "B1", "f")}}

VariableDocs ==
    {Variable(m, q, t, d, NoAnnotation, v) :
        m \in EqModules, q \in EqQualnames, t \in EqOrigins,
        d \in {NoDocstring, <<"scan", "A", "v">>},
        v \in {empty, Val("plain", "A", "v")}}

EqDocs == ClassDocs \cup ModuleDocs \cup FunctionDocs \cup VariableDocs

InitEquality ==
    /\ ExtIdle
    /\ eleft \in EqDocs
    /\ eright \in EqDocs
    /\ eresult = <<>>
    /\ cworld = <<>>
    /\ ClassIdle
    /\ ModuleIdle
    /\ LookupIdle

\* left == right
Compare ==
    /\ eleft # <<>>
    /\ eresult = <<>>
    /\ eresult' = <<DocEq(eleft, eright)>>
    /\ UNCHANGED <<eleft, eright, cvars, mvars, gvars, xvars>>

NextEquality == Compare

SpecEquality == InitEquality /\ [][NextEquality]_vars

----------------------------------------------------------------------------
(* Namespace.get *)

\* Namespace.members: the resolver's members(), or the list [] without one
NamespaceMembers(w, d) ==
    IF d.parser = NoParser THEN [members |-> NoKeys, err |-> "", is_list |-> TRUE]
    ELSE LET p == d.parser[1]
             \* the lookups below do not depend on the order of the mapping
             order == CHOOSE o \in Orders(ClassVarsSets(w, p)) : TRUE
             r == ClassMembers(w, p, order)
         IN  [members |-> r.members, err |-> r.err, is_list |-> FALSE]

\* Namespace.get, uncached: <<>> is None, <<d>> the Doc d.  self.members is a
\* cached property: the mapping ms is computed once and then looked into.
RECURSIVE NamespaceGet(_, _, _)
NamespaceGet(w, d, identifier) ==
    LET head == Head(identifier)
        tail == Tail(identifier)
        Lookup(ms) ==
            LET h == IF Has(ms.members, head) THEN <<Get(ms.members, head)>> ELSE <<>>
            IN  IF ms.err # "" THEN [err |-> ms.err, val |-> <<>>]
                ELSE IF ms.is_list THEN [err |-> "AttributeError", val |-> <<>>]
                ELSE IF tail # <<>>
                THEN IF h # <<>> /\ h[1].type = "Class" THEN NamespaceGet(w, h[1], tail)
                     ELSE [err |-> "", val |-> <<>>]
                ELSE [err |-> "", val |-> h]
    IN  CHOOSE r \in {Lookup(ms) : ms \in {NamespaceMembers(w, d)}} : TRUE

\* the declarations the queried programs are made of
LookupDecls ==
    {<<"f", "C", "dict">>, <<"f", "A", "dict">>, <<"v", "A", "both">>, <<"v", "B1", "scan">>}

\* the programs: any of those declarations; the name f bound to a function,
\* or to the class A
LookupWorlds == {World(S, k, PlainCtor) : S \in SUBSET LookupDecls, k \in {"function", "class"}}

\* a Class doc as the doc-tree resolver builds it: without a resolver
BareClass(c) == Class(ModuleOf(c), QualnameOf(c), ClassObject(c), <<ModuleOf(c), QualnameOf(c)>>, NoParser)

\* the segments of an identifier: f, v, and a name nothing declares
Segments == {"f", "v", "zz"}

\* the identifiers of at most MaxDepth segments
Identifiers == UNION {[1..k -> Segments] : k \in 1..MaxDepth}

InitLookup ==
    /\ ExtIdle
    /\ gworld \in LookupWorlds
    /\ gdoc \in {NewClass(gworld, c, "direct") : c \in Classes} \cup {BareClass(c) : c \in Classes}
    /\ gquery = <<>>
    /\ gresult = <<>>
    /\ gcache = NoKeys
    /\ cworld = <<>>
    /\ ClassIdle
    /\ ModuleIdle
    /\ EqualityIdle

\* doc.get(identifier), behind functools.cache; the model follows one
\* identifier per namespace and its repetitions
CallGet(identifier) ==
    /\ gdoc # <<>>
    /\ gcache = NoKeys \/ Has(gcache, identifier)
    /\ LET r == IF Has(gcache, identifier) THEN [err |-> "", val |-> Get(gcache, identifier)]
                ELSE NamespaceGet(gworld, gdoc, identifier)
       IN  /\ gresult' = r
           /\ gcache' = IF r.err = "" THEN SetItem(gcache, identifier, r.val) ELSE gcache
    /\ gquery' = identifier
    /\ UNCHANGED <<gworld, gdoc, cvars, mvars, evars, xvars>>

NextLookup == \E identifier \in Identifiers : CallGet(identifier)

SpecLookup == InitLookup /\ [][NextLookup]_vars

----------------------------------------------------------------------------
(* The views of a Namespace (analyser.py) *)

\* how deep the class f is nested in A: class A: class f, or class A: class f: class f
NestingDepths == {1, 2}

\* the program with the declarations S of attributes, in which the body of A
\* defines a class f, and at depth 2 the body of that class a class f again
NestedWorld(S, depth) ==
    LET w == World(S, "nested", PlainCtor)
    IN  [w EXCEPT !.dictIn["f"] = IF depth = 1 THEN {"A"} ELSE {"A", "A.f"}]

\* the programs whose namespaces are viewed: those of the lookups, and those
\* with nested classes
ViewWorlds ==
    LookupWorlds \cup
    {NestedWorld(S, k) : S \in SUBSET {<<"v", "A", "both">>, <<"v", "B1", "scan">>}, k \in NestingDepths}

\* Namespace._members_by_origin over the value ms of self.members:
\* self.members.values(), which a list does not have
NamespaceByOrigin(ms) ==
    IF ms.err # "" THEN [err |-> ms.err, val |-> NoKeys]
    ELSE IF ms.is_list THEN [err |-> "AttributeError", val |-> NoKeys]
    ELSE [err |-> "", val |-> MembersByOrigin(ms.members, NoKeys)]

\* the member Docs of the names
DocsOf(members, names) == [i \in 1..Len(names) |-> Get(members, names[i])]

\* Class.own_members
NamespaceOwnMembers(d, ms) ==
    LET by_origin == NamespaceByOrigin(ms)
    IN  IF by_origin.err # "" THEN [err |-> by_origin.err, val |-> <<>>]
        ELSE [err |-> "", val |-> DocsOf(ms.members, OwnMembers(d, by_origin.val).own)]

\* Namespace.inherited_members: location -> the names of the members
NamespaceInheritedMembers(d, ms) ==
    LET by_origin == NamespaceByOrigin(ms)
    IN  IF by_origin.err # "" THEN [err |-> by_origin.err, val |-> NoKeys]
        ELSE [err |-> "", val |-> InheritedMembers(d, by_origin.val)]

\* the own members only: the classes nested in them are left out
OwnMembersOnly(w, d) == NamespaceOwnMembers(d, NamespaceMembers(w, d))

\* Namespace.flattened_own_members
RECURSIVE FlattenedOwnMembers(_, _)
RECURSIVE FlattenLoop(_, _, _)

\* for x in self.own_members: flattened.append(x), and for a Class the
\* Class entries of x.flattened_own_members
FlattenLoop(w, xs, flattened) ==
    IF xs = <<>> \/ flattened.err # "" THEN flattened
    ELSE LET x == Head(xs)
             sub == IF x.type = "Class" THEN FlattenedOwnMembers(w, x)
                    ELSE [err |-> "", val |-> <<>>]
         IN  FlattenLoop(w, Tail(xs),
                 IF sub.err # "" THEN [err |-> sub.err, val |-> <<>>]
                 ELSE [err |-> "",
                       val |-> Append(flattened.val, x)
                               \o SelectSeq(sub.val, LAMBDA cls : cls.type = "Class")])

FlattenedOwnMembers(w, d) ==
    LET own == NamespaceOwnMembers(d, NamespaceMembers(w, d))
    IN  IF own.err # "" THEN own ELSE FlattenLoop(w, own.val, [err |-> "", val |-> <<>>])

\* Function.is_classmethod, Function.is_staticmethod: the wrapper as declared
IsClassmethodDoc(x) == x.wrapped.kind = "classmethod"

IsStaticmethodDoc(x) == x.wrapped.kind = "staticmethod"

\* the condition of the comprehension of each of the three views
KeptIn(view, x) ==
    /\ x.type = "Function"
    /\ CASE view = "classmethods"  -> IsClassmethodDoc(x)
         [] view = "staticmethods" -> IsStaticmethodDoc(x)
         [] OTHER -> ~IsStaticmethodDoc(x) /\ ~IsClassmethodDoc(x)

\* Class.methods, Class.classmethods, Class.staticmethods
KindFiltered(ms, view) ==
    LET values == [i \in 1..Len(ms.members) |-> ms.members[i].v]
    IN  IF ms.err # "" THEN [err |-> ms.err, val |-> <<>>]
        ELSE IF ms.is_list THEN [err |-> "AttributeError", val |-> <<>>]
        ELSE [err |-> "", val |-> SelectSeq(values, LAMBDA x : KeptIn(view, x))]

\* the views read
ViewNames ==
    {"members", "own_members", "inherited_members", "flattened_own_members",
     "methods", "classmethods", "staticmethods"}

\* the value of one view of a doc whose self.members is ms (flattened_own_members apart)
ViewOf(d, ms, view) ==
    CASE view = "members"           -> [err |-> ms.err, val |-> ms.members]
      [] view = "own_members"       -> NamespaceOwnMembers(d, ms)
      [] view = "inherited_members" -> NamespaceInheritedMembers(d, ms)
      [] OTHER                      -> KindFiltered(ms, view)

\* what a read leaves: the exception, the value, and whether the value is a
\* list or a mapping
Outcome(r, is_dict) ==
    [err |-> r.err, val |-> IF r.err = "" THEN r.val ELSE <<>>,
     type |-> IF is_dict THEN "dict" ELSE "list"]

InitViews ==
    /\ CoreIdle
    /\ ExtIdleExcept("views")
    /\ nworld \in ViewWorlds
    /\ ndoc \in {NewClass(nworld, c, variant) : c \in Classes, variant \in DocVariants}
                \cup {BareClass(c) : c \in Classes}
    /\ ncall = <<>>
    /\ nout = <<>>

\* doc.members, doc.own_members, ... on a doc none of whose views was read
ReadView(view) ==
    /\ ndoc # <<>>
    /\ ncall = <<>>
    /\ view # "flattened_own_members"
    /\ ncall' = <<view>>
    /\ LET ms == NamespaceMembers(nworld, ndoc)
       IN  nout' = Outcome(ViewOf(ndoc, ms, view),
                           IF view = "members" THEN ~ms.is_list ELSE view = "inherited_members")
    /\ UNCHANGED <<nworld, ndoc, cvars, mvars, evars, gvars, nxvars>>

\* doc.flattened_own_members, on such a doc
ReadFlattened ==
    /\ ndoc # <<>>
    /\ ncall = <<>>
    /\ ncall' = <<"flattened_own_members">>
    /\ nout' = Outcome(FlattenedOwnMembers(nworld, ndoc), FALSE)
    /\ UNCHANGED <<nworld, ndoc, cvars, mvars, evars, gvars, nxvars>>

\* doc.get(identifier), on such a doc
ReadGet(identifier) ==
    /\ ndoc # <<>>
    /\ ncall = <<>>
    /\ ncall' = <<"get", identifier>>
    /\ LET r == NamespaceGet(nworld, ndoc, identifier)
       IN  nout' = [err |-> r.err, val |-> r.val, type |-> "optional"]
    /\ UNCHANGED <<nworld, ndoc, cvars, mvars, evars, gvars, nxvars>>

NextViews ==
    \/ \E view \in ViewNames : ReadView(view)
    \/ ReadFlattened
    \/ \E identifier \in Identifiers : ReadGet(identifier)

SpecViews == InitViews /\ [][NextViews]_vars

----------------------------------------------------------------------------
(* The text scanner (VariableParser) *)

\* the lexical namespaces of the scanned source: the module top level, a
\* class A, and a class C nested in A
Namespaces == {"", "A", "A.C"}

\* what the source writes for the name x in one namespace
Written == {"nothing", "annotation", "comment", "both"}

\* the most calls made on one scanner
MaxCalls == 3

\* the nodes directly under a document node
MaxTop == 2

\* the ReSTParserSuit objects of a run
NSuits == 2

\* Parser(code).annotations: (namespace, name) -> annotation text
ParserAnnotations(code) ==
    LET ns == SelectSeq(<<"", "A", "A.C">>, LAMBDA n : code[n] \in {"annotation", "both"})
    IN  [i \in 1..Len(ns) |-> [k |-> <<ns[i], "x">>, v |-> [src |-> ns[i], form |-> "text"]]]

\* Parser(code).comments: (namespace, name) -> comment or trailing docstring
ParserComments(code) ==
    LET ns == SelectSeq(<<"", "A", "A.C">>, LAMBDA n : code[n] \in {"comment", "both"})
    IN  [i \in 1..Len(ns) |-> [k |-> <<ns[i], "x">>, v |-> <<"scan", ns[i], "x">>]]

\* VariableParser.__init__
VariableParser(code) ==
    [code |-> code, parsed |-> FALSE, annotations |-> NoKeys, docstring |-> NoKeys,
     annotations_in_ns |-> NoKeys, docstring_in_ns |-> NoKeys]

\* a parse() that starts from empty tables whenever it is called again
parseAfresh(s) ==
    IF s.parsed THEN [s EXCEPT !.annotations = NoKeys, !.docstring = NoKeys]
    ELSE [s EXCEPT !.parsed = TRUE,
                   !.annotations = ParserAnnotations(s.code),
                   !.docstring = ParserComments(s.code)]

\* VariableParser.parse
parse(s) ==
    IF s.parsed THEN s
    ELSE [s EXCEPT !.parsed = TRUE,
                   !.annotations = ParserAnnotations(s.code),
                   !.docstring = ParserComments(s.code)]

\* VariableParser._value_in_ns
ValueInNs(d, ns) ==
    LET here == SelectSeq(d, LAMBDA e : e.k[1] = ns)
    IN  [i \in 1..Len(here) |-> [k |-> here[i].k[2], v |-> here[i].v]]

\* VariableParser.annotations_in_ns behind functools.cache: the scanner
\* afterwards, and the dictionary returned (the memoised one on a repeat)
AnnotationsInNs(s, ns) ==
    IF Has(s.annotations_in_ns, ns) THEN [scanner |-> s, out |-> Get(s.annotations_in_ns, ns)]
    ELSE LET t == parse(s)
             out == ValueInNs(t.annotations, ns)
         IN  [scanner |-> [t EXCEPT !.annotations_in_ns = SetItem(@, ns, out)], out |-> out]

\* VariableParser.docstring_in_ns behind functools.cache
DocstringInNs(s, ns) ==
    IF Has(s.docstring_in_ns, ns) THEN [scanner |-> s, out |-> Get(s.docstring_in_ns, ns)]
    ELSE LET t == parse(s)
             out == ValueInNs(t.docstring, ns)
         IN  [scanner |-> [t EXCEPT !.docstring_in_ns = SetItem(@, ns, out)], out |-> out]

\* what the resolver of the base class of A holds for the name z
BaseDocstrings == <<[k |-> "z", v |-> <<"scan", "Base", "z">>]>>

BaseAnnotations == <<[k |-> "z", v |-> [src |-> "Base", form |-> "text"]]>>

\* SourceCodeClassParser._var_docstring_annotations_in_inheritance_chain, seen
\* from the scanner: the two dictionaries the scanner returned are the
\* resolver's tables, and the entries of the ancestors are set in them
ChainMerge(s, ns) ==
    LET d == DocstringInNs(parse(s), ns)
        a == AnnotationsInNs(d.scanner, ns)
    IN  [a.scanner EXCEPT
            !.docstring_in_ns = SetItem(@, ns, SetDefaultAll(d.out, BaseDocstrings)),
            !.annotations_in_ns = SetItem(@, ns, SetDefaultAll(a.out, BaseAnnotations))]

\* the property var_annotations of a resolver, seen from the scanner:
\* resolve_annotations assigns into the dictionary the scanner returned.
\* A module's annotated names are in its __annotations__; those of class A
\* are written in its constructor and name builtins.
ReadVarAnnotations(s, ns) ==
    LET a == AnnotationsInNs(parse(s), ns)
        resolved == IF ns = "" THEN MergeRuntimeAnnotations(ResolveBuiltins(a.out), ns, KeySeq(a.out))
                    ELSE ResolveBuiltins(a.out)
    IN  [a.scanner EXCEPT !.annotations_in_ns = SetItem(@, ns, resolved)]

InitScanner ==
    /\ CoreIdle
    /\ ExtIdleExcept("scanner")
    /\ scanner \in {VariableParser(code) : code \in [Namespaces -> Written]}
    /\ slog = <<>>
    /\ sret = <<>>

\* scanner.parse()
CallParse ==
    /\ Len(slog) < MaxCalls
    /\ scanner' = parse(scanner)
    /\ slog' = Append(slog, <<"parse", "">>)
    /\ sret' = <<>>
    /\ UNCHANGED <<cvars, mvars, evars, gvars, sxvars>>

\* scanner.annotations_in_ns(ns)
CallAnnotationsInNs(ns) ==
    /\ Len(slog) < MaxCalls
    /\ scanner' = AnnotationsInNs(scanner, ns).scanner
    /\ sret' = <<AnnotationsInNs(scanner, ns).out>>
    /\ slog' = Append(slog, <<"annotations_in_ns", ns>>)
    /\ UNCHANGED <<cvars, mvars, evars, gvars, sxvars>>

\* scanner.docstring_in_ns(ns)
CallDocstringInNs(ns) ==
    /\ Len(slog) < MaxCalls
    /\ scanner' = DocstringInNs(scanner, ns).scanner
    /\ sret' = <<DocstringInNs(scanner, ns).out>>
    /\ slog' = Append(slog, <<"docstring_in_ns", ns>>)
    /\ UNCHANGED <<cvars, mvars, evars, gvars, sxvars>>

\* SourceCodeClassParser(A), over this scanner
ConstructClassResolver ==
    /\ Len(slog) < MaxCalls
    /\ scanner' = ChainMerge(scanner, "A")
    /\ sret' = <<>>
    /\ slog' = Append(slog, <<"SourceCodeClassParser", "A">>)
    /\ UNCHANGED <<cvars, mvars, evars, gvars, sxvars>>

\* resolver.var_annotations, of the module resolver ('') or of that of class A
CallVarAnnotations(ns) ==
    /\ Len(slog) < MaxCalls
    /\ scanner' = ReadVarAnnotations(scanner, ns)
    /\ sret' = <<>>
    /\ slog' = Append(slog, <<"var_annotations", ns>>)
    /\ UNCHANGED <<cvars, mvars, evars, gvars, sxvars>>

NextScanner ==
    \/ CallParse
    \/ \E ns \in Namespaces : CallAnnotationsInNs(ns)
    \/ \E ns \in Namespaces : CallDocstringInNs(ns)
    \/ ConstructClassResolver
    \/ \E ns \in {"", "A"} : CallVarAnnotations(ns)

SpecScanner == InitScanner /\ [][NextScanner]_vars

----------------------------------------------------------------------------
(* The parser-suite registry (parser.py) *)

\* ParserSuit.__subclasses__(), in the order the package imports them
ParserSuitSubclasses == <<"SourceCodeParserSuit", "ReSTParserSuit">>

\* the suite classes a caller may register, one of them from outside the package
SuitClasses == {"SourceCodeParserSuit", "ReSTParserSuit", "CustomParserSuit"}

\* cls.name()
SuitName(cls) ==
    CASE cls = "SourceCodeParserSuit" -> "SourceCode"
      [] cls = "ReSTParserSuit"       -> "reST"
      [] OTHER                        -> "custom"

\* the names suites are registered and looked up under
SuitNames == {"SourceCode", "reST", "custom", "plugin"}

\* suite.parser_types; a suite class that sets none has ParserSuit's own
ParserTypes(cls) ==
    CASE cls = "SourceCodeParserSuit" ->
            <<[k |-> "default", v |-> "SourceCodeModuleParser"],
              [k |-> "module", v |-> "SourceCodeModuleParser"],
              [k |-> "class", v |-> "SourceCodeClassParser"]>>
      [] cls = "ReSTParserSuit" -> <<[k |-> "default", v |-> "ReSTParser"]>>
      [] OTHER -> <<[k |-> "default", v |-> "None"]>>

\* the member-kind keys a suite is queried with
MemberKinds == {"default", "module", "class", "function"}

\* a registration that replaces what is registered under the name
register_parser_suit_type_anew(suits, name, obj) == SetItem(suits, name, obj)

\* ParserSuitsRegistry.register_parser_suit_type
register_parser_suit_type(suits, name, obj) == SetDefault(suits, name, obj)

\* ParserSuitsRegistry.__init__
RECURSIVE ParserSuitsRegistry(_, _)
ParserSuitsRegistry(suits, subclasses) ==
    IF subclasses = <<>> THEN suits
    ELSE ParserSuitsRegistry(
             register_parser_suit_type(suits, SuitName(Head(subclasses)), Head(subclasses)),
             Tail(subclasses))

\* ParserSuitsRegistry.__getitem__: <<implementation>>, or the exception
RegistryGetItem(suits, name) ==
    IF name \in Keys(suits) THEN <<Get(suits, name)>> ELSE "Exception"

\* ParserSuit.__getitem__
SuitGetItem(cls, item) ==
    IF Has(ParserTypes(cls), item) THEN <<Get(ParserTypes(cls), item)>>
    ELSE <<Get(ParserTypes(cls), "default")>>

InitRegistry ==
    /\ CoreIdle
    /\ ExtIdleExcept("registry")
    /\ rsuits = ParserSuitsRegistry(NoKeys, ParserSuitSubclasses)
    /\ rcall = <<>>
    /\ rout = <<>>

\* registry.register_parser_suit_type(name, obj)
CallRegister(name, obj) ==
    /\ rsuits' = register_parser_suit_type(rsuits, name, obj)
    /\ rcall' = <<"register_parser_suit_type", name, obj>>
    /\ rout' = <<>>
    /\ UNCHANGED <<cvars, mvars, evars, gvars, rxvars>>

\* registry[name]
CallRegistryGetItem(name) ==
    /\ rcall' = <<"registry[]", name, "">>
    /\ rout' = RegistryGetItem(rsuits, name)
    /\ UNCHANGED <<rsuits, cvars, mvars, evars, gvars, rxvars>>

\* suite[item], on an instance of a registered suite class
CallSuitGetItem(name, item) ==
    /\ Has(rsuits, name)
    /\ rcall' = <<"suite[]", Get(rsuits, name), item>>
    /\ rout' = SuitGetItem(Get(rsuits, name), item)
    /\ UNCHANGED <<rsuits, cvars, mvars, evars, gvars, rxvars>>

\* registry.available_parser_suit_types()
CallAvailable ==
    /\ rcall' = <<"available_parser_suit_types", "", "">>
    /\ rout' = KeySeq(rsuits)
    /\ UNCHANGED <<rsuits, cvars, mvars, evars, gvars, rxvars>>

NextRegistry ==
    \/ \E name \in SuitNames, obj \in SuitClasses : CallRegister(name, obj)
    \/ \E name \in SuitNames : CallRegistryGetItem(name)
    \/ \E name \in SuitNames, item \in MemberKinds : CallSuitGetItem(name, item)
    \/ CallAvailable

SpecRegistry == InitRegistry /\ [][NextRegistry]_vars

----------------------------------------------------------------------------
(* The reST resolver (reST_parser.py) *)

\* a docutils node; objtype is attributes['objtype'] of a desc node, module
\* and fullname are attributes['module'] and ['fullname'] of a desc_signature
Node(type, objtype, module, fullname, children) ==
    [type |-> type, objtype |-> objtype, module |-> module, fullname |-> fullname,
     children |-> children]

DescSignature(module, fullname) == Node("desc_signature", "", module, fullname, <<>>)

Desc(objtype, children) == Node("desc", objtype, "", <<>>, children)

DescContent(children) == Node("desc_content", "", "", <<>>, children)

Section(children) == Node("section", "", "", <<>>, children)

Document(children) == Node("document", "", "", <<>>, children)

\* the one module __import__ finds; it holds class K with method meth
RstModule == "rstmod"

\* what getattr finds going down from the module rstmod
RstObjects == {<<"K">>, <<"K", "meth">>}

\* the object at the end of the walk
RstObject(qualname) ==
    IF Len(qualname) = 1 THEN ClassObject(qualname[1]) ELSE Val("function", qualname[1], qualname[2])

\* the signatures in the pages: a class, its method, a name K does not have,
\* and a class of a module that cannot be imported
Signatures ==
    {DescSignature(RstModule, <<"K">>), DescSignature(RstModule, <<"K", "meth">>),
     DescSignature(RstModule, <<"K", "nope">>), DescSignature("nomod", <<"K">>)}

\* descriptions of one signature
Leaves == {Desc(t, <<sig>>) : t \in {"class", "method", "data", "exception"}, sig \in Signatures}

\* the description of class K with the description of a member in its content
NestedDescs ==
    {Desc("class", <<DescSignature(RstModule, <<"K">>), DescContent(<<Desc(t, <<sig>>)>>)>>) :
        t \in {"function", "attribute"},
        sig \in {DescSignature(RstModule, <<"K", "meth">>), DescSignature(RstModule, <<"K", "nope">>)}}

\* descriptions inside a section, one of them with two signatures
Sectioned ==
    {Section(<<d>>) : d \in NestedDescs}
        \cup {Section(<<Desc("function", <<DescSignature(RstModule, <<"K", "meth">>),
                                           DescSignature("nomod", <<"K">>)>>)>>)}

TopNodes == Leaves \cup NestedDescs \cup Sectioned

Documents == {Document(c) : c \in UNION {[1..k -> TopNodes] : k \in 1..MaxTop}}

\* env.toctree_includes and env.titles of the suite
Toctrees ==
    {NoKeys,
     <<[k |-> "index", v |-> <<"sub1">>]>>,
     <<[k |-> "index", v |-> <<"sub1", "sub2">>]>>}

\* the pages a resolver is made for
Pages == {"index", "sub1"}

\* env.titles[name].astext()
find_title(name) == <<"title", name>>

\* ReSTParserSuit.toctree; '' has nothing to loop over
toctree(includes, name) == IF name \notin Keys(includes) THEN <<>> ELSE Get(includes, name)

ReSTParser(reST_path) == <<[reST_path |-> reST_path, parser_suit |-> "ReSTParserSuit"]>>

RECURSIVE Concat(_)
Concat(seqs) == IF seqs = <<>> THEN <<>> ELSE Head(seqs) \o Concat(Tail(seqs))

\* a walk that also goes through the children of a desc node
RECURSIVE AllDesc(_)
AllDesc(node) ==
    (IF node.type = "desc" THEN <<node>> ELSE <<>>)
        \o Concat([i \in 1..Len(node.children) |-> AllDesc(node.children[i])])

\* ReSTParser._get_desc: a desc node is collected and the walk returns
RECURSIVE GetDesc(_)
GetDesc(node) ==
    IF node.type = "desc" THEN <<node>>
    ELSE Concat([i \in 1..Len(node.children) |-> GetDesc(node.children[i])])

\* ReSTParser.get_obj_from_str: getattr down the segments, from module
get_obj_from_str(module, qualname) ==
    IF module = None THEN [err |-> "AttributeError", obj |-> None]
    ELSE IF \E k \in 1..Len(qualname) : SubSeq(qualname, 1, k) \notin RstObjects
    THEN [err |-> "AttributeError", obj |-> None]
    ELSE [err |-> "", obj |-> RstObject(qualname)]

\* ReSTParser.get_python_obj_from_node
get_python_obj_from_node(cache, sig) ==
    LET cached   == Has(cache, sig.module)
        imported == sig.module = RstModule
        module   == IF cached THEN Get(cache, sig.module)
                    ELSE IF imported THEN Val("module", sig.module, sig.module)
                    ELSE None
        found    == get_obj_from_str(module, sig.fullname)
    IN  [err |-> found.err,
         cache |-> IF ~cached /\ imported THEN SetItem(cache, sig.module, module) ELSE cache,
         printed |-> IF ~cached /\ ~imported THEN <<<<"Can not import", sig.module>>>> ELSE <<>>,
         modulename |-> sig.module,
         qualname |-> sig.fullname,
         obj |-> found.obj]

\* ReSTParser.desc_sign2model, given what get_python_obj_from_node returned;
\* <<>> is the None that falls out of the if-chain
desc_sign2model(objtype, r) ==
    CASE objtype = "class" ->
            <<Class(r.modulename, r.qualname, r.obj, <<r.modulename, r.qualname>>, NoParser)>>
      [] objtype \in {"function", "method"} ->
            <<Function(r.modulename, r.qualname, r.obj, <<r.modulename, r.qualname>>)>>
      [] objtype \in {"attribute", "data"} ->
            <<Variable(r.modulename, r.qualname, <<r.modulename, r.qualname>>,
                       NoDocstring, NoAnnotation, r.obj)>>
      [] OTHER -> <<>>

\* the objtypes desc_sign2model has a branch for
KnownObjtypes == {"class", "function", "method", "attribute", "data"}

\* one round of the loop of desc2model; acc is what members() has so far
SignatureStep(acc, objtype, child) ==
    IF acc.err # "" \/ child.type # "desc_signature" THEN acc
    ELSE LET r == IF objtype \in KnownObjtypes
                  THEN get_python_obj_from_node(acc.cache, child)
                  ELSE [err |-> "", cache |-> acc.cache, printed |-> <<>>,
                        modulename |-> "", qualname |-> <<>>, obj |-> None]
             m == desc_sign2model(objtype, r)
         IN  IF r.err # ""
             THEN [acc EXCEPT !.err = r.err, !.cache = r.cache, !.printed = @ \o r.printed]
             ELSE IF m = <<>>
             THEN [acc EXCEPT !.err = "AttributeError"]
             ELSE [acc EXCEPT !.cache = r.cache, !.printed = @ \o r.printed,
                              !.members = SetItem(@, <<m[1].modulename, m[1].qualname>>, m[1])]

\* ReSTParser.desc2model
RECURSIVE desc2model(_, _, _)
desc2model(acc, objtype, children) ==
    IF children = <<>> THEN acc
    ELSE desc2model(SignatureStep(acc, objtype, Head(children)), objtype, Tail(children))

RECURSIVE MembersFromDescs(_, _)
MembersFromDescs(acc, descs) ==
    IF descs = <<>> THEN acc
    ELSE MembersFromDescs(desc2model(acc, Head(descs).objtype, Head(descs).children), Tail(descs))

\* ReSTParser._get_members_from_rst
get_members_from_rst(cache, doc) ==
    MembersFromDescs([err |-> "", cache |-> cache, printed |-> <<>>, members |-> NoKeys],
                     GetDesc(doc))

\* ReSTParser.submodules
ReSTSubmodules(includes, reST_path) ==
    LET paths == toctree(includes, reST_path)
    IN  [i \in 1..Len(paths) |->
            Module("", <<find_title(paths[i])>>, None, <<>>, ReSTParser(paths[i]))]

InitReST ==
    /\ CoreIdle
    /\ ExtIdleExcept("reST")
    /\ ddoc \in [doctree : Documents, toctree_includes : Toctrees]
    /\ dcache = NoKeys
    /\ dcall = <<>>
    /\ dout = <<>>

\* ReSTParser('index', suit).members()
CallReSTMembers ==
    /\ LET r == get_members_from_rst(dcache, ddoc.doctree)
       IN  /\ dcache' = r.cache
           /\ dout' = [err |-> r.err, printed |-> r.printed,
                       docs |-> IF r.err = "" THEN r.members ELSE NoKeys]
    /\ dcall' = <<"members", "index">>
    /\ UNCHANGED <<ddoc, cvars, mvars, evars, gvars, dxvars>>

\* ReSTParser(page, suit).submodules()
CallReSTSubmodules(page) ==
    /\ dout' = [err |-> "", printed |-> <<>>,
                docs |-> [i \in 1..Len(ReSTSubmodules(ddoc.toctree_includes, page)) |->
                             [k |-> i, v |-> ReSTSubmodules(ddoc.toctree_includes, page)[i]]]]
    /\ dcall' = <<"submodules", page>>
    /\ UNCHANGED <<ddoc, dcache, cvars, mvars, evars, gvars, dxvars>>

NextReST ==
    \/ CallReSTMembers
    \/ \E page \in Pages : CallReSTSubmodules(page)

SpecReST == InitReST /\ [][NextReST]_vars

----------------------------------------------------------------------------
(* The life of a ReSTParserSuit: __init__, the last reference, __del__ *)

Suits == 1..NSuits

\* the names tempfile.mkdtemp may choose
TempDirs == {"tmp1", "tmp2", "tmp3"}

\* the directory of the reST sources, which the caller owns
SourceDir == "docs"

\* a suite before ReSTParserSuit(...) is called; an attribute not set is <<>>
NoSuit == [pc |-> "none", given |-> "", output_dir |-> <<>>, env |-> <<>>, import_pkg_cache |-> <<>>]

\* hasattr(self, 'output_dir')
HasOutputDir(suit) == suit.output_dir # <<>>

\* a removal only for a suite whose construction completed
RmtreeWhenBuilt(suit, dirs) ==
    IF suit.output_dir # <<>> /\ suit.env # <<>> THEN dirs \ {suit.output_dir[1]} ELSE dirs

\* shutil.rmtree(self.output_dir, ignore_errors=True) of __del__
Rmtree(suit, dirs) == IF HasOutputDir(suit) THEN dirs \ {suit.output_dir[1]} ELSE dirs

InitSuits ==
    /\ CoreIdle
    /\ ExtIdleExcept("suits")
    /\ tsuits = [i \in Suits |-> NoSuit]
    /\ tdirs = {SourceDir}

\* ReSTParserSuit(env) with a BuildEnvironment: lines 26-28 and 32
ConstructFromEnv(i) ==
    /\ tsuits[i].pc = "none"
    /\ tsuits' = [tsuits EXCEPT ![i] = [@ EXCEPT !.pc = "alive", !.given = "env",
                                                 !.env = <<"given">>, !.import_pkg_cache = <<NoKeys>>]]
    /\ UNCHANGED <<tdirs, cvars, mvars, evars, gvars, txvars>>

\* ReSTParserSuit(sourcedir): self.output_dir = tempfile.mkdtemp()
Mkdtemp(i) ==
    /\ tsuits[i].pc = "none"
    /\ \E d \in TempDirs \ tdirs :
          /\ tdirs' = tdirs \cup {d}
          /\ tsuits' = [tsuits EXCEPT ![i] = [@ EXCEPT !.pc = "build", !.given = "sourcedir",
                                                       !.output_dir = <<d>>]]
    /\ UNCHANGED <<cvars, mvars, evars, gvars, txvars>>

\* env_after_sphinx_build: build_main(...) returns or raises
BuildMain(i) ==
    /\ tsuits[i].pc = "build"
    /\ \E raised \in BOOLEAN :
          tsuits' = [tsuits EXCEPT ![i].pc = IF raised THEN "raised" ELSE "load"]
    /\ UNCHANGED <<tdirs, cvars, mvars, evars, gvars, txvars>>

\* env_after_sphinx_build: open(...) and pickle.load(f) return or raise;
\* then self.env and self.import_pkg_cache are set
LoadEnv(i) ==
    /\ tsuits[i].pc = "load"
    /\ \E raised \in BOOLEAN :
          tsuits' = [tsuits EXCEPT ![i] =
                        IF raised THEN [@ EXCEPT !.pc = "raised"]
                        ELSE [@ EXCEPT !.pc = "alive", !.env = <<"built">>,
                                       !.import_pkg_cache = <<NoKeys>>]]
    /\ UNCHANGED <<tdirs, cvars, mvars, evars, gvars, txvars>>

\* the caller drops its last reference, to the suite or to the exception
\* that left the constructor
Discard(i) ==
    /\ tsuits[i].pc \in {"alive", "raised"}
    /\ tsuits' = [tsuits EXCEPT ![i].pc = "discarded"]
    /\ UNCHANGED <<tdirs, cvars, mvars, evars, gvars, txvars>>

\* ReSTParserSuit.__del__
Del(i) ==
    /\ tsuits[i].pc = "discarded"
    /\ tdirs' = Rmtree(tsuits[i], tdirs)
    /\ tsuits' = [tsuits EXCEPT ![i].pc = "finalized"]
    /\ UNCHANGED <<cvars, mvars, evars, gvars, txvars>>

NextSuits ==
    \E i \in Suits :
        \/ ConstructFromEnv(i)
        \/ Mkdtemp(i)
        \/ BuildMain(i)
        \/ LoadEnv(i)
        \/ Discard(i)
        \/ Del(i)

SpecSuits == InitSuits /\ [][NextSuits]_vars

\* reference counting runs __del__ as soon as the last reference is gone
SpecSuitsFair == SpecSuits /\ \A i \in Suits : WF_vars(Del(i))

----------------------------------------------------------------------------
(* Function.signature (analyser.py) *)

\* object.__init__, as the slot wrapper the class dictionary of object holds
ObjectInit == Val("wrapper", "object", "__init__")

\* what a Function doc is built over: functions and their wrappers, the
\* constructors of object and of dict, a built-in without a text signature,
\* a plain value, and None; g is declared without a receiver, as a static
\* method of A and as a function of a module
Callables ==
    {Val(k, "A", n) : k \in {"function", "classmethod", "staticmethod"}, n \in {"f", "__init__"}}
        \cup {ObjectInit, Val("wrapper", "dict", "__init__"), Val("builtin", "", "f"),
              Val("int", "", "f"), None}
        \cup {Val("staticmethod", "A", "g"), Val("function", "", "g")}

\* inspect.signature finds a signature for the callable
Introspectable(obj) == obj.kind \in {"function", "wrapper"}

Parameter(name, kind, annotation) == [name |-> name, kind |-> kind, annotation |-> annotation]

Signature(parameters, return_annotation) ==
    [parameters |-> parameters, return_annotation |-> return_annotation]

\* _PrettySignature.from_callable(obj): what the source of the callable declares
from_callable(obj) ==
    CASE obj.kind = "wrapper" ->
            Signature(<<Parameter("self", "POSITIONAL_ONLY", NoAnnotation),
                        Parameter("args", "VAR_POSITIONAL", NoAnnotation),
                        Parameter("kwargs", "VAR_KEYWORD", NoAnnotation)>>, NoAnnotation)
      [] obj.nm = "g" ->
            Signature(<<Parameter("a", "POSITIONAL_OR_KEYWORD", [src |-> "int", form |-> "text"]),
                        Parameter("b", "POSITIONAL_OR_KEYWORD", NoAnnotation)>>,
                      NoAnnotation)
      [] obj.nm = "__init__" ->
            Signature(<<Parameter("self", "POSITIONAL_OR_KEYWORD", NoAnnotation),
                        Parameter("a", "POSITIONAL_OR_KEYWORD", [src |-> "int", form |-> "text"])>>,
                      [src |-> "None", form |-> "text"])
      [] OTHER ->
            Signature(<<Parameter("self", "POSITIONAL_OR_KEYWORD", NoAnnotation),
                        Parameter("a", "POSITIONAL_OR_KEYWORD", [src |-> "int", form |-> "text"])>>,
                      [src |-> "bool", form |-> "text"])

\* safe_eval_type: an annotation given as text becomes the type it names
safe_eval_type(annotation) ==
    IF annotation.form = "text" THEN [annotation EXCEPT !.form = "type"] ELSE annotation

\* inspect.Signature()
EmptySignature == Signature(<<>>, NoAnnotation)

\* inspect.Signature([inspect.Parameter("unknown", POSITIONAL_OR_KEYWORD)])
UnknownSignature == Signature(<<Parameter("unknown", "POSITIONAL_OR_KEYWORD", NoAnnotation)>>, NoAnnotation)

\* a reading that gives up with the signature of object.__init__
FunctionSignatureOrEmpty(doc) ==
    IF doc.obj = ObjectInit \/ ~Introspectable(doc.obj) THEN EmptySignature
    ELSE from_callable(doc.obj)

\* Function.signature
FunctionSignature(doc) ==
    IF doc.obj = ObjectInit THEN EmptySignature
    ELSE IF ~Introspectable(doc.obj) THEN UnknownSignature
    ELSE LET sig == from_callable(doc.obj)
         IN  Signature([i \in 1..Len(sig.parameters) |->
                            [sig.parameters[i] EXCEPT !.annotation = safe_eval_type(@)]],
                       IF DocName(doc) = "__init__" THEN NoAnnotation
                       ELSE safe_eval_type(sig.return_annotation))

\* Function.signature_without_self: parameters[1:]
SignatureWithoutSelf(sig) ==
    Signature(SubSeq(sig.parameters, 2, Len(sig.parameters)), sig.return_annotation)

InitSignature ==
    /\ CoreIdle
    /\ ExtIdleExcept("signature")
    /\ fdoc \in {Function(m, q, f, <<m, q>>) :
                    m \in EqModules, q \in {<<"f">>, <<"A", "f">>, <<"A", "__init__">>}, f \in Callables}
    /\ fsig = Unset
    /\ fwithout = Unset
    /\ fparams = Unset

\* doc.signature, read for the first time; a cached_property keeps the value
AccessSignature ==
    /\ fsig = Unset
    /\ fsig' = <<FunctionSignature(fdoc)>>
    /\ UNCHANGED <<fdoc, fwithout, fparams, cvars, mvars, evars, gvars, fxvars>>

\* doc.signature_without_self, read for the first time; it reads doc.signature
AccessSignatureWithoutSelf ==
    /\ fwithout = Unset
    /\ LET sig == IF fsig = Unset THEN FunctionSignature(fdoc) ELSE fsig[1]
       IN  /\ fsig' = <<sig>>
           /\ fwithout' = <<SignatureWithoutSelf(sig)>>
    /\ UNCHANGED <<fdoc, fparams, cvars, mvars, evars, gvars, fxvars>>

\* doc.parameters, read for the first time; it reads doc.signature_without_self
AccessParameters ==
    /\ fparams = Unset
    /\ LET sig == IF fsig = Unset THEN FunctionSignature(fdoc) ELSE fsig[1]
           without == IF fwithout = Unset THEN SignatureWithoutSelf(sig) ELSE fwithout[1]
       IN  /\ fsig' = <<sig>>
           /\ fwithout' = <<without>>
           /\ fparams' = <<without.parameters>>
    /\ UNCHANGED <<fdoc, cvars, mvars, evars, gvars, fxvars>>

NextSignature ==
    \/ AccessSignature
    \/ AccessSignatureWithoutSelf
    \/ AccessParameters

SpecSignature == InitSignature /\ [][NextSignature]_vars

----------------------------------------------------------------------------
(* The derived properties of a Doc and of a Variable (cached_property) *)

\* the cached properties read here
DerivedNames ==
    {"fullname", "name", "is_inherited", "is_classvar", "default_value_str", "annotation_str"}

\* the fields an assignment may replace
AssignedFields == {"annotation", "default_value", "taken_from"}

ClassVarAnnotation == [src |-> "ClassVar[int]", form |-> "type"]

\* the annotations a Variable is given: none, a type, ClassVar[...] of a type
DerivedAnnotations == {NoAnnotation, [src |-> "int", form |-> "type"], ClassVarAnnotation}

\* the default values: none, a value, a value whose repr() raises
DerivedValues == {empty, Val("int", "", "1"), Val("unreprable", "", "x")}

\* the values a field may take
FieldValues(field) ==
    CASE field = "annotation"    -> DerivedAnnotations
      [] field = "default_value" -> DerivedValues
      [] OTHER                   -> {<<"lib", <<"A", "v">>>>, <<"lib", <<"B", "v">>>>}

\* Doc.fullname: modulename.qualname without leading and trailing dots
DocFullname(doc) == (IF doc.modulename = "" THEN <<>> ELSE <<doc.modulename>>) \o doc.qualname

\* Doc.name, from the full name the call of fullname gave
NameOfFullname(fullname) == fullname[Len(fullname)]

\* Doc.is_inherited
IsInherited(doc) == <<doc.modulename, doc.qualname>> # doc.taken_from

\* Variable.is_classvar: get_origin(self.annotation) is ClassVar
IsClassvar(doc) == doc.annotation = ClassVarAnnotation

\* Variable.default_value_str
DefaultValueStr(doc) ==
    IF doc.default_value = empty THEN <<>>
    ELSE IF doc.default_value.kind = "unreprable" THEN <<" = ", "<unable to get value representation>">>
    ELSE <<" = ", doc.default_value>>

\* Variable.annotation_str
AnnotationStr(doc) ==
    IF doc.annotation # NoAnnotation THEN <<": ", doc.annotation.src>> ELSE <<>>

\* a property that runs its function at every read
Recomputed(slot, value) == <<value>>

\* functools.cached_property.__get__: the function runs when the slot is empty
CachedProperty(slot, value) == IF slot = Unset THEN <<value>> ELSE slot

\* the slots after doc.<name> is read; name reads fullname
ReadDerived(doc, cache, name) ==
    CASE name = "fullname" ->
            [cache EXCEPT !.fullname = CachedProperty(@, DocFullname(doc))]
      [] name = "name" ->
            LET full == CachedProperty(cache.fullname, DocFullname(doc))
            IN  [cache EXCEPT !.fullname = IF cache.name = Unset THEN full ELSE @,
                              !.name = CachedProperty(@, NameOfFullname(full[1]))]
      [] name = "is_inherited" ->
            [cache EXCEPT !.is_inherited = CachedProperty(@, IsInherited(doc))]
      [] name = "is_classvar" ->
            [cache EXCEPT !.is_classvar = CachedProperty(@, IsClassvar(doc))]
      [] name = "default_value_str" ->
            [cache EXCEPT !.default_value_str = CachedProperty(@, DefaultValueStr(doc))]
      [] OTHER ->
            [cache EXCEPT !.annotation_str = CachedProperty(@, AnnotationStr(doc))]

InitDerived ==
    /\ CoreIdle
    /\ ExtIdleExcept("derived")
    /\ vdoc \in {Variable(m, <<"A", "v">>, t, NoDocstring, a, d) :
                    m \in {"", "lib"}, t \in FieldValues("taken_from"),
                    a \in DerivedAnnotations, d \in DerivedValues}
    /\ vcache = [name \in DerivedNames |-> Unset]
    /\ vcall = <<>>
    /\ vret = <<>>

\* value = doc.<name>
GetDerived(name) ==
    /\ vcache' = ReadDerived(vdoc, vcache, name)
    /\ vret' = vcache'[name]
    /\ vcall' = <<"get", name>>
    /\ UNCHANGED <<vdoc, cvars, mvars, evars, gvars, vxvars>>

\* doc.<field> = value
AssignField(field, value) ==
    /\ vdoc' = [vdoc EXCEPT ![field] = value]
    /\ vdoc' # vdoc
    /\ vcall' = <<"set", field>>
    /\ vret' = <<>>
    /\ UNCHANGED <<vcache, cvars, mvars, evars, gvars, vxvars>>

NextDerived ==
    \/ \E name \in DerivedNames : GetDerived(name)
    \/ \E field \in AssignedFields : \E value \in FieldValues(field) : AssignField(field, value)

SpecDerived == InitDerived /\ [][NextDerived]_vars

----------------------------------------------------------------------------
(* Properties of the class sub-system *)

\* the value lists of a mapping, concatenated
RECURSIVE Flatten(_)
Flatten(groups) == IF groups = <<>> THEN <<>> ELSE Head(groups).v \o Flatten(Tail(groups))

Occurrences(x, s) == Cardinality({i \in 1..Len(s) : s[i] = x})

MembersComputed == cdoc # <<>> /\ cdoc[1].cache.members # Unset

ViewsComputed ==
    /\ MembersComputed
    /\ cdoc[1].cache.own_members # Unset
    /\ cdoc[1].cache.inherited_members # Unset

(* C1: own_members and the value lists of inherited_members together hold  *)
(* every member of members exactly once: no member is in both, none is in  *)
(* two inherited lists, none is missing, and nothing else is listed.       *)
C1_OwnAndInheritedPartitionMembers ==
    ViewsComputed =>
        LET cache == cdoc[1].cache
            listed == cache.own_members[1] \o Flatten(cache.inherited_members[1])
        IN  /\ \A n \in Keys(cache.members[1]) : Occurrences(n, listed) = 1
            /\ Range(listed) \subseteq Keys(cache.members[1])

\* a re-exported class with own members and members inherited from two places
C1_Witness ==
    /\ ViewsComputed
    /\ cdoc[1].doc.taken_from # <<cdoc[1].doc.modulename, cdoc[1].doc.qualname>>
    /\ cdoc[1].cache.own_members[1] # <<>>
    /\ Len(cdoc[1].cache.inherited_members[1]) >= 2

\* the first class of the method-resolution order whose __dict__ has the name
RECURSIVE NearestInDict(_, _, _)
NearestInDict(w, mro, n) ==
    IF mro = <<>> THEN ""
    ELSE IF n \in Range(ClassDict(w, Head(mro))) THEN Head(mro)
    ELSE NearestInDict(w, Tail(mro), n)

\* the first class of the method-resolution order whose body the scanner found the name in
RECURSIVE NearestInScan(_, _, _)
NearestInScan(w, mro, n) ==
    IF mro = <<>> THEN ""
    ELSE IF Head(mro) \in w.scanIn[n] THEN Head(mro)
    ELSE NearestInScan(w, Tail(mro), n)

MemberObjectsCalled == cparser # NoParser /\ cret # NoKeys

(* C2: for every name found by the walk over the __dict__s of the          *)
(* method-resolution order, the identity attributes apart, taken_from      *)
(* names the nearest class of that order whose own __dict__ has the name.  *)
C2_TakenFromNearestDeclarer ==
    MemberObjectsCalled =>
        \A n \in Names \cup {"__weakref__"} :
            LET c == cparser[1].obj
                d == NearestInDict(cworld, Mro(c), n)
            IN  d # "" => ClassTakenFrom(cparser[1], n).loc = Location(d, n)

(* C3: an attribute known only from scanned annotations and docstrings,    *)
(* which the class itself does not declare, is a member with the           *)
(* annotation and docstring of D and taken_from (module of D, "D.n"), D    *)
(* the nearest class of the ancestor chain whose body declares it; it is   *)
(* listed under inherited_members[(module of D, "D")], not in own_members. *)
C3_ScannedAttributeFromNearestAncestor ==
    ViewsComputed /\ cdoc[1].doc.taken_from = <<cdoc[1].doc.modulename, cdoc[1].doc.qualname>> =>
        \A n \in Names :
            LET c == cparser[1].obj
                d == NearestInScan(cworld, Mro(c), n)
                cache == cdoc[1].cache
            IN  (IsVarName(n) /\ NearestInDict(cworld, Mro(c), n) = "" /\ d \notin {"", c}) =>
                    /\ Has(cache.members[1], n)
                    /\ Get(cache.members[1], n).taken_from = Location(d, n)
                    /\ Get(cache.members[1], n).docstring = <<"scan", d, n>>
                    /\ Get(cache.members[1], n).annotation.src = d
                    /\ n \in Range(GetList(cache.inherited_members[1], <<ModuleOf(d), QualnameOf(d)>>))
                    /\ n \notin Range(cache.own_members[1])

\* the names of the __dict__s of the method-resolution order that are not forced
WalkedNames == (Names \cup {"__weakref__"}) \ Range(IdentityAttrs)

\* every walked name maps to the value of the nearest class that declares it
MostDerivedValueWins ==
    \A n \in WalkedNames :
        LET d == NearestInDict(cworld, Mro(cparser[1].obj), n)
        IN  d # "" => Has(cret, n) /\ Get(cret, n) = DictValue(cworld, d, n)

\* the entry of an identity attribute is the current class's, and so is its provenance
OwnIdentity(attr) ==
    LET c == cparser[1].obj
    IN  /\ Has(cret, attr)
        /\ Get(cret, attr) = cleandoc(GetAttr(cworld, c, attr))
        /\ attr \in DOMAIN cparser[1].definitions
        /\ cparser[1].definitions[attr] = Location(c, attr)

(* C23: member_objects() of a class resolver maps every name of the        *)
(* __dict__s of the method-resolution order to the value of the            *)
(* most-derived class that declares it; the identity attributes            *)
(* (constructor, docstring, annotation table, namespace dictionary) always *)
(* map to the current class's own values and have the current class as     *)
(* provenance, whichever ancestor declares them.                           *)
C23_IdentityAttributesAreAlwaysTheClasssOwn ==
    MemberObjectsCalled =>
        /\ MostDerivedValueWins
        /\ \A attr \in {"__init__", "__doc__", "__annotations__", "__dict__"} : OwnIdentity(attr)

(* C23, as the code has it: the same for the walked names and for the      *)
(* docstring, the annotation table, the namespace dictionary and the       *)
(* module name; the constructor's provenance is the current class too, but *)
(* its entry is the current class's resolved constructor only while the    *)
(* constructor rule keeps it: a constructor with a docstring of its own is *)
(* kept, and otherwise the entry is absent, the metaclass __call__, the    *)
(* class's __new__, or the resolved constructor.                           *)
C23_IdentityAttributesButTheConstructorRule ==
    MemberObjectsCalled =>
        LET c == cparser[1].obj
            ctor == GetAttr(cworld, c, "__init__")
        IN  /\ MostDerivedValueWins
            /\ \A attr \in Range(IdentityAttrs) \ {"__init__"} : OwnIdentity(attr)
            /\ "__init__" \in DOMAIN cparser[1].definitions
            /\ cparser[1].definitions["__init__"] = Location(c, "__init__")
            /\ DocOf(cworld, ctor) = CustomDoc => OwnIdentity("__init__")
            /\ Has(cret, "__init__") =>
                    Get(cret, "__init__") \in {ctor, Val("function", "Meta", "__call__"),
                                               Val("function", c, "__new__")}

\* member_objects() of C, where an ancestor's __dict__ is not the nearest to
\* declare a name and __dict__ itself is declared by the farthest ancestor
C23_Witness ==
    /\ MemberObjectsCalled
    /\ cparser[1].obj = "C"
    /\ \E n \in Names \ Range(IdentityAttrs) :
            /\ {"B1", "A"} \subseteq cworld.dictIn[n]
            /\ Has(cret, n)
            /\ Get(cret, n) = DictValue(cworld, "B1", n)
    /\ Has(cret, "__dict__")
    /\ Get(cret, "__dict__") = Val("plain", "C", "__dict__")

\* the resolver has been built and nothing has been asked of it yet
ResolverBuilt == cparser # NoParser /\ cret = NoKeys /\ cdoc[1].cache = NoCache

(* C24: the effective var_docstring and var_annotations tables of a class  *)
(* resolver give each name the entry of the nearest class of the           *)
(* method-resolution order that documents or annotates it: with the order  *)
(* C, B1, B2, A and a name documented in B2 and in A only, C's table holds *)
(* B2's docstring.                                                         *)
C24_NearestClassDocumentsTheName ==
    ResolverBuilt =>
        \A n \in Names :
            LET p == cparser[1]
                d == NearestInScan(cworld, Mro(p.obj), n)
            IN  d # "" =>
                    /\ Has(p.var_docstring, n)
                    /\ Get(p.var_docstring, n) = <<"scan", d, n>>
                    /\ Has(p.var_annotations, n)
                    /\ Get(p.var_annotations, n).src = d

(* C25: the walk over the __dict__s never replaces an entry of the          *)
(* definitions table that the scanner pass recorded: where the two         *)
(* provenances of a name differ, taken_from answers the scanner's.         *)
C25_WalkKeepsScannerProvenance ==
    [][(cparser # NoParser /\ cparser' # NoParser) =>
            \A n \in DOMAIN cparser[1].definitions :
                /\ n \in DOMAIN cparser'[1].definitions
                /\ cparser'[1].definitions[n] = cparser[1].definitions[n]
                /\ ClassTakenFrom(cparser'[1], n).loc = cparser[1].definitions[n]]_vars

\* the resolver could not be built
ResolverFailed == cparser = NoParser /\ cerr # ""

(* C7: the __init__ entry of a class's member set.  A constructor with a   *)
(* docstring of its own is kept.  Otherwise an abstract class, an          *)
(* enumeration and a dict subclass have no __init__ entry; else a          *)
(* user-defined metaclass __call__ with a docstring takes the entry; else  *)
(* a user-defined __new__ with a docstring takes it; else the constructor  *)
(* stays.  Every such class has a member set.                              *)
C7_ConstructorEntry ==
    /\ ~ResolverFailed
    /\ MemberObjectsCalled =>
        LET c == cparser[1].obj
            owner == InitOwner(cworld, Mro(c))
            ctor == IF owner = "object" THEN Val("wrapper", "object", "__init__")
                    ELSE Val("function", owner, "__init__")
            documented == owner # "object" /\ cworld.initDoc = CustomDoc
            entry == IF Has(cret, "__init__") THEN <<Get(cret, "__init__")>> ELSE <<>>
        IN  IF documented THEN entry = <<ctor>>
            ELSE IF cworld.base \in {"abc", "enum", "dict"} THEN entry = <<>>
            ELSE IF cworld.metaCall = "user_doc" THEN entry = <<Val("function", "Meta", "__call__")>>
            ELSE IF cworld.newFn = "user_doc" THEN entry = <<Val("function", c, "__new__")>>
            ELSE entry = <<ctor>>

----------------------------------------------------------------------------
(* Properties of the module sub-system *)

\* a list without its repetitions, first occurrences kept
RECURSIVE Distinct(_)
Distinct(s) ==
    IF s = <<>> THEN <<>>
    ELSE <<Head(s)>> \o Distinct(SelectSeq(Tail(s), LAMBDA x : x # Head(s)))

MemberObjectsReturned == mop = "member_objects" /\ merr = ""

(* C4: when the module has an __all__, the keys of member_objects() are    *)
(* the names of that list, in its order; a name's value is its __dict__    *)
(* value, else the sentinel when the name has a scanned annotation, else   *)
(* the module that importing the name gives.  Names of __dict__ that are   *)
(* not listed are not members.                                             *)
C4_ListedNamesAreTheMembers ==
    (MemberObjectsReturned /\ ModuleAll(mworld) # <<>>) =>
        /\ KeySeq(mret) = Distinct(ModuleAll(mworld)[1])
        /\ \A n \in Keys(mret) :
              Get(mret, n) =
                  IF n \in Range(ModuleDict(mworld)) THEN ModuleDictValue(mworld, n)
                  ELSE IF n \in Range(ModuleAnnotated(mworld)) THEN empty
                  ELSE IF mworld.shape[n] = "importable" THEN Val("module", "", n)
                  ELSE empty

\* the listed names that have no value, no annotation, and do not import
Unresolvable(w) ==
    {n \in Range(ModuleNames) :
        /\ ModuleAll(w) # <<>>
        /\ n \in Range(ModuleAll(w)[1])
        /\ w.shape[n] \in {"child", "unimportable", "import_runtime_error", "absent"}}

(* C5: when a name of __all__ has no __dict__ value and no scanned         *)
(* annotation and its import fails, whatever the failure, member_objects() *)
(* returns all the same, maps the name to the sentinel and warns about it. *)
C5_UnresolvableNameDegrades ==
    (mop = "member_objects" /\ Unresolvable(mworld) # {}) =>
        /\ merr = ""
        /\ \A n \in Unresolvable(mworld) :
              Has(mret, n) /\ Get(mret, n) = empty /\ n \in Range(mwarn)

(* C6: when the module has no __all__, the keys of member_objects() are    *)
(* the names of __dict__ whose value was declared in this module, the      *)
(* names with a scanned docstring or annotation (mapped to the sentinel    *)
(* when they have no value), and the reachable child modules.              *)
C6_UnlistedMembers ==
    (MemberObjectsReturned /\ ModuleAll(mworld) = <<>>) =>
        LET declared == {n \in Range(ModuleDict(mworld)) :
                            GetModuleName(ModuleDictValue(mworld, n)) = <<ThisModule>>}
            scanned == Keys(ModuleScanDoc(mworld)) \cup Keys(ModuleScanAnn(mworld))
            children == Range(Submodules(mworld))
        IN  /\ \A n \in declared \cup scanned : Has(mret, n)
            /\ \A n \in scanned \ Range(ModuleDict(mworld)) : Has(mret, n) /\ Get(mret, n) = empty
            /\ \A c \in children : \E i \in 1..Len(mret) : mret[i].v = c
            /\ \A i \in 1..Len(mret) : mret[i].k \in declared \cup scanned \/ mret[i].v \in children

\* the kind of Doc the precedence gives a raw value
KindByPrecedence(obj) ==
    IF obj.kind \in {"property", "cached_property", "classmethod_property"} THEN "Variable"
    ELSE IF obj.kind \in {"function", "classmethod", "staticmethod", "wrapper"} THEN "Function"
    ELSE IF obj.kind = "class" THEN "Class"
    ELSE IF obj.kind = "module" THEN "Module"
    ELSE "Variable"

(* C10: members() makes one Doc of every raw (name, value) pair, of the    *)
(* kind the precedence gives: property, routine, class, module, data       *)
(* descriptor, anything else; a property has no default, a class has a     *)
(* resolver of its own, a data descriptor has no default, anything else    *)
(* has the raw value as default.  No raw value makes members() raise.      *)
C10_EveryRawValueBecomesADoc ==
    (mop = "members" /\ ModuleMemberObjects(mworld, mparser[1]).err = "") =>
        /\ merr = ""
        /\ Keys(mdocs) = Keys(mret)
        /\ \A n \in Keys(mret) :
              LET obj == Get(mret, n)
                  doc == Get(mdocs, n)
              IN  /\ doc.type = KindByPrecedence(obj)
                  /\ obj.kind \in {"property", "classmethod_property", "datadesc"} => doc.default_value = empty
                  /\ obj.kind = "class" => doc.parser # NoParser
                  /\ (doc.type = "Variable" /\ obj.kind \notin {"property", "classmethod_property", "datadesc"})
                         => doc.default_value = obj

\* the docstring that introspection of a raw value gives its Doc
IntrospectedDocstring(obj) ==
    IF obj.kind \in {"property", "cached_property", "classmethod_property"}
    THEN <<"getdoc", obj.cls, obj.nm>>
    ELSE IF obj.kind \in {"function", "classmethod", "staticmethod", "wrapper", "class"}
    THEN <<"getdoc", obj.cls, obj.nm>>
    ELSE IF obj.kind = "datadesc" THEN <<"descriptor", obj.cls, obj.nm>>
    ELSE NoDocstring

MembersReturned == mop = "members" /\ merr = ""

(* C11: in what members() returns, a name with a non-empty scanned         *)
(* docstring has that docstring, whatever the kind of its Doc and whatever *)
(* introspection gave; a name without one keeps the introspected one.      *)
C11_ScannedDocstringWins ==
    MembersReturned =>
        \A n \in Keys(mdocs) :
            LET scanned == ModuleScanDoc(mworld)
            IN  Get(mdocs, n).docstring =
                    IF Has(scanned, n) /\ Get(scanned, n) # NoDocstring THEN Get(scanned, n)
                    ELSE IntrospectedDocstring(Get(mret, n))

\* a function with a doc comment beside a function without one
C11_Witness ==
    /\ MembersReturned
    /\ \E n, k \in Keys(mdocs) :
          /\ Get(mdocs, n).type = "Function"
          /\ Get(mdocs, n).docstring = <<"scan", ThisModule, n>>
          /\ Get(mdocs, k).type = "Function"
          /\ Get(mdocs, k).docstring = <<"getdoc", ThisModule, k>>

(* C26: a module whose __all__ is present but empty has an explicit list   *)
(* for member_objects() and for submodules() alike: both return nothing.   *)
C26_EmptyListIsAnExplicitList ==
    mworld.all = <<<<>>>> =>
        /\ mop = "member_objects" => (mret = NoKeys /\ merr = "")
        /\ mop = "submodules" => msubs = <<>>

(* C19: asked where a name that is not in its definitions table is taken   *)
(* from, the class resolver does not raise and answers with the class      *)
(* itself: (its module, its qualified name followed by the name).          *)
C19_UnknownProvenanceFallsBack ==
    (pcall # <<>> /\ pcall[2] \notin DOMAIN cparser[1].definitions) =>
        /\ pout.err = ""
        /\ pout.loc = <<cparser[1].modulename, cparser[1].qualname \o <<pcall[2]>>>>

----------------------------------------------------------------------------
(* Properties of the text scanner *)

LastCall == slog[Len(slog)]

\* the last call is the first on this scanner to ask for, or to be handed,
\* the memoised dictionary of its table and namespace
FirstQuery(method) ==
    /\ slog # <<>>
    /\ LastCall[1] = method
    /\ \A i \in 1..(Len(slog) - 1) :
          \/ slog[i][1] = "parse"
          \/ slog[i][2] # LastCall[2]
          \/ slog[i][1] = (IF method = "annotations_in_ns" THEN "docstring_in_ns" ELSE "annotations_in_ns")
          \/ slog[i][1] = "var_annotations" /\ method = "docstring_in_ns"

(* C12: a second parse() is a no-op: however many times parse() was        *)
(* called, the two tables are those the first call left; and a namespace   *)
(* query gives the same answer with and without a parse() before it.       *)
C12_ParseIsIdempotent ==
    /\ scanner # <<>> /\ scanner.parsed =>
          /\ scanner.annotations = ParserAnnotations(scanner.code)
          /\ scanner.docstring = ParserComments(scanner.code)
    /\ scanner # <<>> /\ FirstQuery("annotations_in_ns") =>
          sret = <<ValueInNs(ParserAnnotations(scanner.code), LastCall[2])>>
    /\ scanner # <<>> /\ FirstQuery("docstring_in_ns") =>
          sret = <<ValueInNs(ParserComments(scanner.code), LastCall[2])>>

\* parse() twice, then a query that finds something
C12_Witness ==
    /\ slog = <<<<"parse", "">>, <<"parse", "">>, <<"annotations_in_ns", "A">>>>
    /\ sret # <<NoKeys>>
    /\ scanner.docstring # NoKeys

(* C13: annotations_in_ns(ns) and docstring_in_ns(ns) return exactly the   *)
(* entries whose namespace is ns, the texts as scanned: those of a nested  *)
(* class A.C are not in the answer for A; a namespace without entries      *)
(* gives an empty mapping.                                                 *)
C13_ExactNamespaceEntries ==
    /\ (slog # <<>> /\ LastCall[1] = "annotations_in_ns") =>
          sret = <<ValueInNs(ParserAnnotations(scanner.code), LastCall[2])>>
    /\ (slog # <<>> /\ LastCall[1] = "docstring_in_ns") =>
          sret = <<ValueInNs(ParserComments(scanner.code), LastCall[2])>>

(* C27: constructing a class resolver over a scanner, and reading the      *)
(* resolver's var_docstring and var_annotations, leave the answers of the  *)
(* scanner's annotations_in_ns and docstring_in_ns as they were.           *)
C27_ResolverLeavesScannerAnswers ==
    [][(slog' # slog /\ slog'[Len(slog')][1] \in {"SourceCodeClassParser", "var_annotations"}) =>
            \A ns \in Namespaces :
                /\ AnnotationsInNs(scanner', ns).out = AnnotationsInNs(scanner, ns).out
                /\ DocstringInNs(scanner', ns).out = DocstringInNs(scanner, ns).out]_vars

----------------------------------------------------------------------------
(* Properties of the parser-suite registry *)

(* C14: looking up a registered suite name gives its implementation and an *)
(* unregistered name raises; registering a name that is present leaves the *)
(* registry as it was; a suite asked for a member kind it does not define  *)
(* answers with its 'default' resolver.                                    *)
C14_RegistryLookup ==
    [][/\ (rcall'[1] = "registry[]") =>
               (rout' = IF \E i \in 1..Len(rsuits) : rsuits[i].k = rcall'[2]
                        THEN <<(CHOOSE e \in Range(rsuits) : e.k = rcall'[2]).v>>
                        ELSE "Exception")
       /\ (rcall'[1] = "register_parser_suit_type" /\ rcall'[2] \in Keys(rsuits)) =>
               (rsuits' = rsuits)
       /\ (rcall'[1] = "register_parser_suit_type" /\ rcall'[2] \notin Keys(rsuits)) =>
               (/\ Keys(rsuits') = Keys(rsuits) \cup {rcall'[2]}
                /\ \A e \in Range(rsuits') :
                       e \in Range(rsuits) \/ e = [k |-> rcall'[2], v |-> rcall'[3]])
       /\ (rcall'[1] = "suite[]") =>
               (rout' = IF rcall'[3] \in Keys(ParserTypes(rcall'[2]))
                        THEN <<Get(ParserTypes(rcall'[2]), rcall'[3])>>
                        ELSE <<Get(ParserTypes(rcall'[2]), "default")>>)
      ]_vars

\* reST was registered again with another class, and is still ReSTParserSuit
C14_Witness ==
    /\ rcall = <<"register_parser_suit_type", "reST", "CustomParserSuit">>
    /\ Get(rsuits, "reST") = "ReSTParserSuit"
    /\ Has(rsuits, "plugin")

----------------------------------------------------------------------------
(* Properties of the reST resolver *)

MembersCalled == dcall # <<>> /\ dcall[1] = "members"

\* the Doc kind of a description's objtype
KindOf(objtype) ==
    CASE objtype = "class"                   -> "Class"
      [] objtype \in {"function", "method"}  -> "Function"
      [] objtype \in {"attribute", "data"}   -> "Variable"
      [] OTHER                               -> "none"

\* the signatures directly under the description nodes descs, each with the
\* objtype of its description
SignaturesOf(descs) ==
    UNION {{[objtype |-> descs[i].objtype, sig |-> descs[i].children[j]] :
                j \in {k \in 1..Len(descs[i].children) :
                          descs[i].children[k].type = "desc_signature"}} :
           i \in 1..Len(descs)}

(* C15: when members() returns, it holds under (module, fullname) a Doc for *)
(* every signature of every description node of the page, the nodes inside *)
(* the content of another description included, and the Doc is of the kind *)
(* of a description that holds the signature.                              *)
C15_EveryDescriptionAtAnyDepth ==
    (MembersCalled /\ dout.err = "") =>
        \A e \in SignaturesOf(AllDesc(ddoc.doctree)) :
            e.objtype \in KnownObjtypes =>
                /\ Has(dout.docs, <<e.sig.module, e.sig.fullname>>)
                /\ Get(dout.docs, <<e.sig.module, e.sig.fullname>>).type \in
                       {KindOf(o.objtype) : o \in {x \in SignaturesOf(AllDesc(ddoc.doctree)) : x.sig = e.sig}}

\* the signature names a module that cannot be imported or a name the module lacks
Unresolved(sig) ==
    \/ sig.module # RstModule
    \/ \E k \in 1..Len(sig.fullname) : SubSeq(sig.fullname, 1, k) \notin RstObjects

\* the value a Doc stands for: obj, or default_value for a Variable
Underlying(doc) == IF doc.type = "Variable" THEN doc.default_value ELSE doc.obj

(* C16: on a page whose collected descriptions all have a known objtype,   *)
(* members() does not raise; a signature whose module cannot be imported   *)
(* or whose name is missing still has its Doc, with None for its object,   *)
(* and a failed import is reported; every other signature has its Doc with *)
(* the object found; the import cache holds the imported module and never  *)
(* a module whose import failed.                                           *)
C16_UnresolvedObjectIsNotFatal ==
    (/\ MembersCalled
     /\ \A e \in SignaturesOf(GetDesc(ddoc.doctree)) : e.objtype \in KnownObjtypes) =>
        /\ dout.err = ""
        /\ \A e \in SignaturesOf(GetDesc(ddoc.doctree)) :
              /\ Has(dout.docs, <<e.sig.module, e.sig.fullname>>)
              /\ Underlying(Get(dout.docs, <<e.sig.module, e.sig.fullname>>)) =
                     IF Unresolved(e.sig) THEN None ELSE RstObject(e.sig.fullname)
              /\ e.sig.module # RstModule =>
                     \E i \in 1..Len(dout.printed) : dout.printed[i] = <<"Can not import", e.sig.module>>
              /\ e.sig.module = RstModule => Has(dcache, RstModule)
        /\ Keys(dcache) \subseteq {RstModule}

(* C29: a description node whose objtype is none of the known ones does    *)
(* not make members() raise: it adds no member, and the Docs of the other  *)
(* descriptions of the page are returned (their objects being found).      *)
C29_UnknownObjtypeIsSkipped ==
    (/\ MembersCalled
     /\ \A e \in SignaturesOf(GetDesc(ddoc.doctree)) :
           e.objtype \in KnownObjtypes => ~Unresolved(e.sig)) =>
        LET known == {e \in SignaturesOf(GetDesc(ddoc.doctree)) : e.objtype \in KnownObjtypes}
        IN  /\ dout.err = ""
            /\ Keys(dout.docs) = {<<e.sig.module, e.sig.fullname>> : e \in known}

(* C18: every Doc the reST resolver returns, from members() or from        *)
(* submodules(), has a taken_from of two components, the module name and   *)
(* the qualified name.                                                     *)
C18_TakenFromIsAPair ==
    dcall # <<>> =>
        \A i \in 1..Len(dout.docs) : Len(dout.docs[i].v.taken_from) = 2

----------------------------------------------------------------------------
(* Properties of the life of a ReSTParserSuit *)

----------------------------------------------------------------------------
(* Properties of Function.signature *)

SignatureRead == fsig # Unset

HasReceiver(doc) ==
    \/ doc.wrapped.kind = "classmethod"
    \/ doc.wrapped.kind = "function" /\ doc.wrapped.cls # ""

(* C21: the parameters of a Function over a callable with a signature are  *)
(* the parameters of its signature, in their order, less the first one for *)
(* a method or a class method, and all of them for a static method or a    *)
(* function of a module.                                                   *)
C21_OnlyTheReceiverIsDropped ==
    (fparams # Unset /\ fdoc.wrapped.kind \in {"function", "classmethod", "staticmethod"}) =>
        fparams[1] = IF HasReceiver(fdoc)
                     THEN SubSeq(fsig[1].parameters, 2, Len(fsig[1].parameters))
                     ELSE fsig[1].parameters

----------------------------------------------------------------------------
(* Properties of the derived properties *)

(* C22: a derived property is computed at its first read, and every later  *)
(* read gives that first value whatever was assigned to the fields between;*)
(* a slot is filled by a read only, of that property or of one that reads  *)
(* it, and a read returns what the slot holds.                             *)
C22_DerivedPropertiesAreComputedOnce ==
    [][/\ \A name \in DerivedNames : vcache[name] # Unset => vcache'[name] = vcache[name]
       /\ \A name \in DerivedNames :
              (vcache[name] = Unset /\ vcache'[name] # Unset) =>
                  /\ vcall'[1] = "get"
                  /\ vcall'[2] = name \/ (vcall'[2] = "name" /\ name = "fullname")
       /\ (vcall' # <<>> /\ vcall'[1] = "get") =>
              /\ vcache'[vcall'[2]] # Unset
              /\ vret' = vcache'[vcall'[2]]
      ]_vars

\* annotation_str is read after the annotation it was computed from was replaced
C22_Witness ==
    /\ vcall = <<"get", "annotation_str">>
    /\ vret # <<AnnotationStr(vdoc)>>
    /\ vcache.is_classvar = Unset

----------------------------------------------------------------------------
(* Properties of Doc equality and of Namespace.get *)

\* what identifies a Doc: its kind, module, qualified name, object (for a
\* Function the callable as declared) and origin
SameIdentity(a, b) ==
    /\ a.type = b.type
    /\ a.modulename = b.modulename
    /\ a.qualname = b.qualname
    /\ (IF a.type = "Function" THEN a.wrapped = b.wrapped ELSE a.obj = b.obj)
    /\ a.taken_from = b.taken_from

(* C8: two Docs are equal if and only if their kind, modulename, qualname, *)
(* object (for a Function the wrapper as declared) and taken_from are      *)
(* equal; no other field, a Variable's default value, docstring or         *)
(* annotation or a Namespace's resolver, has a say.                        *)
C8_EqualityIsIdentity ==
    eresult # <<>> => (eresult[1] <=> SameIdentity(eleft, eright))

\* q continues the qualified name p
Continues(p, q) == Len(p) < Len(q) /\ SubSeq(q, 1, Len(p)) = p

\* the own members of the doc d of the viewed program
OwnMembersOf(d) == NamespaceOwnMembers(d, NamespaceMembers(nworld, d)).val

\* flattened_own_members was read on a doc that has a resolver
FlattenedRead == ncall = <<"flattened_own_members">> /\ ndoc.parser # NoParser

C30_NamespaceWithoutResolverIsEmpty ==
    (ncall # <<>> /\ ndoc.parser = NoParser) =>
        /\ nout.err = ""
        /\ nout.val = <<>>
        /\ ncall = <<"members">> => nout.type = "dict"

\* the members a namespace is looked up in; none when it has no resolver
MembersOrNone(w, d) == NamespaceMembers(w, d).members

\* the Doc at the end of the walk s1, s2, ..., sk, or <<>>
RECURSIVE Walk(_, _, _)
Walk(w, d, identifier) ==
    LET ms == MembersOrNone(w, d)
        step == IF Has(ms, Head(identifier)) THEN <<Get(ms, Head(identifier))>> ELSE <<>>
    IN  IF Len(identifier) = 1 THEN step
        ELSE IF step # <<>> /\ step[1].type = "Class" THEN Walk(w, step[1], Tail(identifier))
        ELSE <<>>

(* C9: N.get(s1.s2...sk) returns the Doc that looking s1 up in N.members,  *)
(* s2 in the members of that Doc, and so on, ends at; it returns None when *)
(* a segment is missing or a segment before the last is not a Class; it    *)
(* never raises; the same query again gives the same result.               *)
C9_GetWalksTheSegments ==
    gquery # <<>> =>
        /\ gresult.err = ""
        /\ gresult.val = Walk(gworld, gdoc, gquery)
        /\ Has(gcache, gquery) /\ Get(gcache, gquery) = gresult.val

====
